---------------------------- MODULE Spec2Model ----------------------------
(***************************************************************************)
(* Temporal-predicate scheduling engine (when.py) and the hysteresis       *)
(* driver loop that consumes it (hysteresis.py, simulation_core.py,        *)
(* clock.py).                                                              *)
(*                                                                         *)
(* Counter values are integers.  A next_time result is one of False, True  *)
(* or a number; it is carried as a record [isnum, b, n].                   *)
(***************************************************************************)
EXTENDS Integers, Naturals, Sequences, FiniteSets, TLC

VARIABLES
    when,          \* SpecWhen: the predicate tree under evaluation
    this_time,     \* SpecWhen: the TimeDict handed to match_time / next_time
    ident,         \* SpecWhen: the identifier asked for
    nt,            \* SpecWhen: the last next_time result
    matched,       \* SpecWhen: the last match_time result
    results,       \* SpecWhen: the (this, next) pairs of the iteration loop
    wpc,           \* SpecWhen: "start" before the first call, "called" after
    tols,          \* SpecWhen: tols[ident], None when no tolerance is configured
    nt_tols,       \* SpecWhen: the last next_time result with tols passed
    results_tols,  \* SpecWhen: the (this, next) pairs of the loop run with tols
    trial_clock,   \* temp_time: the copy of this_time a next_time call writes to
    every_call,    \* SpecEvery: the arguments of a call of every(...)
    every_ret,     \* SpecEvery: what the call returned or raised
    last_called,   \* Throttler.last_called: key -> time of the last allowed call
    now,           \* the value time.monotonic() returns
    allowed,       \* what the last call of is_allowed returned
    last_call,     \* the last call of is_allowed: key, delay, last_called before
    isolated,      \* per key: last_called of a Throttler that saw only that key
    save,          \* the 'save' argument of hysteresis: a list of tuples
    do,            \* the 'do' argument of hysteresis: a list of tuples
    thing_when_tuples, \* the merged schedule: (action, when) pairs
    error,         \* the exception raised, if any
    pc,            \* position of the call being followed
    clock,         \* sim.clock
    clock_class,   \* the class of the object sim.clock
    H_ext_list,    \* the fields handed to hysteresis
    h_idx,         \* position of the for loop in H_ext_list (1-based)
    stage,         \* the local variable 'stage' (a number or None)
    next_save_time, \* key -> cached (next_step, next_time, next_real_time)
    entry_idx,     \* position of the for loop in thing_when_tuples
    fired,         \* the actions invoked in the last pass, in order
    stages_run,    \* the fields for which a stage was started, in order
    deltas         \* (delta_step, delta_time, delta_real_time) of the last pass

whenVars == <<when, this_time, ident, nt, matched, results, wpc,
              tols, nt_tols, results_tols, trial_clock>>

everyVars == <<every_call, every_ret>>

throttleVars == <<last_called, now, allowed, last_call, isolated>>

schedVars == <<save, do, thing_when_tuples, error, pc>>

loopVars == <<clock, clock_class, H_ext_list, h_idx, stage, next_save_time, entry_idx,
              fired, stages_run, deltas>>

vars == <<when, this_time, ident, nt, matched, results, wpc,
          tols, nt_tols, results_tols, trial_clock, every_call, every_ret,
          last_called, now, allowed, last_call, isolated,
          save, do, thing_when_tuples, error, pc,
          clock, clock_class, H_ext_list, h_idx, stage, next_save_time,
          entry_idx, fired, stages_run, deltas>>

----------------------------------------------------------------------------
(* Bounds of the model *)

\* largest small counter value a TimeDict starts from
MaxStep == 30
\* number of trial rounds of the And search that the model follows
MaxAndIter == 24
\* longest iteration loop (this := next) that the model follows
MaxResults == 6
\* longest run of the iteration loop with a tolerance
MaxTolResults == 10

(* Program constants *)

\* math.isclose default rel_tol = 1e-09, as its inverse
RelTolInv == 1000000000

----------------------------------------------------------------------------
(* Clock / TimeDict *)

Flags == {"convergence", "stage_end", "exit_hysteresis"}

\* SimulationClock's default field values
SimulationClock ==
    [id |-> -1, stage |-> 1, step |-> 0, time |-> 0, stage_step |-> 0,
     stage_time |-> 0, real_time |-> 0, stage_end |-> FALSE,
     convergence |-> FALSE, exit_hysteresis |-> FALSE,
     zero_stage_time |-> 0, zero_stage_step |-> 0]

----------------------------------------------------------------------------
(* NextTime = Union[bool, int, float] *)

NTFalse == [isnum |-> FALSE, b |-> FALSE, n |-> 0]
NTTrue == [isnum |-> FALSE, b |-> TRUE, n |-> 0]
NTBool(b) == [isnum |-> FALSE, b |-> b, n |-> 0]
NTNum(n) == [isnum |-> TRUE, b |-> FALSE, n |-> n]
\* the And search did not return within MaxAndIter rounds
NTNoReturn == [isnum |-> FALSE, b |-> FALSE, n |-> -1]

----------------------------------------------------------------------------
(* Predicate constructors: at(), every(), never, | and &.                  *)
(* An optional argument that is None carries has_* = FALSE.                *)

at(identifier, value) ==
    [kind |-> "at", identifier |-> identifier,
     isflag |-> FALSE, bvalue |-> FALSE, value |-> value]

at_flag(identifier, bvalue) ==
    [kind |-> "at", identifier |-> identifier,
     isflag |-> TRUE, bvalue |-> bvalue, value |-> 0]

EverySpec(identifier, has_delta, delta, first, has_last, last) ==
    [kind |-> "every", identifier |-> identifier,
     has_delta |-> has_delta, delta |-> delta, first |-> first,
     has_last |-> has_last, last |-> last]

never == [kind |-> "never"]

OrSpec(spec1, spec2) == [kind |-> "or", spec1 |-> spec1, spec2 |-> spec2]

AndSpec(spec1, spec2) == [kind |-> "and", spec1 |-> spec1, spec2 |-> spec2]

----------------------------------------------------------------------------
(* _float_is_integer(f) for f = num / den with num >= 0, den > 0:          *)
(* math.isclose(f, round(f)), round() rounding halves to even.             *)

PyRound(num, den) ==
    LET q == num \div den
        r == num % den
    IN  IF 2 * r < den THEN q
        ELSE IF 2 * r > den THEN q + 1
        ELSE IF q % 2 = 0 THEN q ELSE q + 1

Max2(a, b) == IF a > b THEN a ELSE b

Abs(a) == IF a < 0 THEN -a ELSE a

\* faulty variant: no closeness tolerance, only exact ratios are integers
FloatIsIntegerExact(num, den) == num % den = 0

_float_is_integer(num, den) ==
    LET rd == PyRound(num, den) * den
        diff == Abs(num - rd)
    IN  diff <= Max2(num, rd) \div RelTolInv

----------------------------------------------------------------------------
(* _AtSpec *)

AtMatchTime(spec, tt) ==
    IF spec.isflag
    THEN spec.identifier \in Flags /\ tt[spec.identifier] = spec.bvalue
    ELSE spec.identifier \notin Flags /\ tt[spec.identifier] = spec.value

\* faulty variant: the target is still reported at the matching instant (t <= value)
AtNextTimeInclusive(spec, identifier, tt) ==
    IF spec.identifier # identifier THEN NTTrue
    ELSE IF identifier \in Flags
         THEN IF spec.isflag /\ spec.bvalue THEN NTTrue
              ELSE NTBool(spec.isflag /\ tt[identifier] = spec.bvalue)
         ELSE IF tt[identifier] <= spec.value THEN NTNum(spec.value)
              ELSE NTFalse

\* faulty variant: a flag predicate answers with the current comparison for both targets
AtNextTimeCompare(spec, identifier, tt) ==
    IF spec.identifier # identifier THEN NTTrue
    ELSE IF identifier \in Flags
         THEN NTBool(spec.isflag /\ tt[identifier] = spec.bvalue)
         ELSE IF tt[identifier] < spec.value THEN NTNum(spec.value)
              ELSE NTFalse

AtNextTime(spec, identifier, tt) ==
    IF spec.identifier # identifier THEN NTTrue
    ELSE IF identifier \in Flags
         THEN IF spec.isflag /\ spec.bvalue THEN NTTrue
              ELSE NTBool(spec.isflag /\ tt[identifier] = spec.bvalue)
         ELSE IF tt[identifier] < spec.value THEN NTNum(spec.value)
              ELSE NTFalse

----------------------------------------------------------------------------
(* _EverySpec *)

EveryMatchTime(spec, tt) ==
    LET t == tt[spec.identifier]
    IN  IF t < spec.first THEN FALSE
        ELSE IF spec.has_last /\ t > spec.last THEN FALSE
        ELSE IF ~spec.has_delta THEN TRUE
        ELSE IF spec.delta <= 0 THEN FALSE
        ELSE _float_is_integer(t - spec.first, spec.delta)

\* faulty variant: an exact grid point is answered with itself (no "+ 1")
EveryNextTimeNoAdvance(spec, identifier, tt) ==
    LET t == tt[identifier]
    IN  IF spec.identifier # identifier THEN NTBool(EveryMatchTime(spec, tt))
        ELSE IF spec.has_last /\ t >= spec.last THEN NTFalse
        ELSE IF t < spec.first /\ spec.has_delta THEN NTNum(spec.first)
        ELSE IF ~spec.has_delta THEN NTTrue
        ELSE IF spec.delta <= 0 THEN NTFalse
        ELSE LET num == t - spec.first
                 next_pos == IF _float_is_integer(num, spec.delta)
                             THEN PyRound(num, spec.delta)
                             ELSE (num \div spec.delta) + 1
                 next_t == spec.delta * next_pos + spec.first
             IN  IF spec.has_last /\ next_t > spec.last THEN NTFalse
                 ELSE NTNum(next_t)

\* faulty variant: 'last' ends the continuation only once it is exceeded
EveryNextTimeLastInclusive(spec, identifier, tt) ==
    LET t == tt[identifier]
    IN  IF spec.identifier # identifier THEN NTBool(EveryMatchTime(spec, tt))
        ELSE IF spec.has_last /\ t > spec.last THEN NTFalse
        ELSE IF t < spec.first /\ spec.has_delta THEN NTNum(spec.first)
        ELSE IF ~spec.has_delta THEN NTTrue
        ELSE IF spec.delta <= 0 THEN NTFalse
        ELSE LET num == t - spec.first
                 next_pos == IF _float_is_integer(num, spec.delta)
                             THEN PyRound(num, spec.delta) + 1
                             ELSE (num \div spec.delta) + 1
                 next_t == spec.delta * next_pos + spec.first
             IN  IF spec.has_last /\ next_t > spec.last THEN NTFalse
                 ELSE NTNum(next_t)

EveryNextTime(spec, identifier, tt) ==
    LET t == tt[identifier]
    IN  IF spec.identifier # identifier THEN NTBool(EveryMatchTime(spec, tt))
        ELSE IF spec.has_last /\ t >= spec.last THEN NTFalse
        ELSE IF t < spec.first /\ spec.has_delta THEN NTNum(spec.first)
        ELSE IF ~spec.has_delta THEN NTTrue
        ELSE IF spec.delta <= 0 THEN NTFalse
        ELSE LET num == t - spec.first
                 next_pos == IF _float_is_integer(num, spec.delta)
                             THEN PyRound(num, spec.delta) + 1
                             ELSE (num \div spec.delta) + 1
                 next_t == spec.delta * next_pos + spec.first
             IN  IF spec.has_last /\ next_t > spec.last THEN NTFalse
                 ELSE NTNum(next_t)

----------------------------------------------------------------------------
(* _OrSpec.next_time on the two children's results *)

\* faulty variant: of two numbers the later one is returned
OrNextTimeMax(nt1, nt2) ==
    IF nt1 = NTNoReturn \/ nt2 = NTNoReturn THEN NTNoReturn
    ELSE IF ~nt1.isnum /\ ~nt2.isnum THEN NTBool(nt1.b \/ nt2.b)
    ELSE IF nt1 = NTFalse THEN nt2
    ELSE IF nt2 = NTFalse THEN nt1
    ELSE IF nt1 = NTTrue THEN NTTrue
    ELSE IF nt2 = NTTrue THEN NTTrue
    ELSE NTNum(IF nt1.n < nt2.n THEN nt2.n ELSE nt1.n)

\* faulty variant: of two numbers the first child's one is returned
OrNextTimeFirst(nt1, nt2) ==
    IF nt1 = NTNoReturn \/ nt2 = NTNoReturn THEN NTNoReturn
    ELSE IF ~nt1.isnum /\ ~nt2.isnum THEN NTBool(nt1.b \/ nt2.b)
    ELSE IF nt1 = NTFalse THEN nt2
    ELSE IF nt2 = NTFalse THEN nt1
    ELSE IF nt1 = NTTrue THEN NTTrue
    ELSE IF nt2 = NTTrue THEN NTTrue
    ELSE nt1

OrNextTime(nt1, nt2) ==
    IF nt1 = NTNoReturn \/ nt2 = NTNoReturn THEN NTNoReturn
    ELSE IF ~nt1.isnum /\ ~nt2.isnum THEN NTBool(nt1.b \/ nt2.b)
    ELSE IF nt1 = NTFalse THEN nt2
    ELSE IF nt2 = NTFalse THEN nt1
    ELSE IF nt1 = NTTrue THEN NTTrue
    ELSE IF nt2 = NTTrue THEN NTTrue
    ELSE NTNum(IF nt1.n < nt2.n THEN nt1.n ELSE nt2.n)

----------------------------------------------------------------------------
(* match_time / next_time over a predicate tree; _AndSpec.next_time is the *)
(* while loop AndSearch on the copy temp_time.                             *)

RECURSIVE match_time(_, _)
match_time(spec, tt) ==
    CASE spec.kind = "at" -> AtMatchTime(spec, tt)
      [] spec.kind = "every" -> EveryMatchTime(spec, tt)
      [] spec.kind = "or" ->
            match_time(spec.spec1, tt) \/ match_time(spec.spec2, tt)
      [] spec.kind = "and" ->
            match_time(spec.spec1, tt) /\ match_time(spec.spec2, tt)
      [] spec.kind = "never" -> FALSE

\* faulty variant: the trial point is the smaller of the two candidates
AndTrialMin(nt1, nt2) == IF nt1.n > nt2.n THEN nt2.n ELSE nt1.n

\* ntmax of one round of the And search
AndTrial(nt1, nt2) == IF nt1.n > nt2.n THEN nt1.n ELSE nt2.n

RECURSIVE next_time(_, _, _)
RECURSIVE AndSearch(_, _, _, _)
next_time(spec, identifier, tt) ==
    CASE spec.kind = "at" -> AtNextTime(spec, identifier, tt)
      [] spec.kind = "every" -> EveryNextTime(spec, identifier, tt)
      [] spec.kind = "or" ->
            OrNextTime(next_time(spec.spec1, identifier, tt),
                       next_time(spec.spec2, identifier, tt))
      [] spec.kind = "and" -> AndSearch(spec, identifier, tt, 0)
      [] spec.kind = "never" -> NTFalse

AndSearch(spec, identifier, temp_time, round) ==
    IF round >= MaxAndIter THEN NTNoReturn
    ELSE
    LET nt1 == next_time(spec.spec1, identifier, temp_time)
        nt2 == next_time(spec.spec2, identifier, temp_time)
    IN  IF nt1 = NTNoReturn \/ nt2 = NTNoReturn THEN NTNoReturn
        ELSE IF nt1 = NTFalse \/ nt2 = NTFalse THEN NTFalse
        ELSE IF nt1 = NTTrue THEN nt2
        ELSE IF nt2 = NTTrue THEN nt1
        ELSE LET ntmax == AndTrial(nt1, nt2)
                 argmin == IF nt1.n > nt2.n THEN spec.spec2 ELSE spec.spec1
                 moved == [temp_time EXCEPT ![identifier] = ntmax]
             IN  IF match_time(argmin, moved) THEN NTNum(ntmax)
                 ELSE AndSearch(spec, identifier, moved, round + 1)


----------------------------------------------------------------------------
(* Strings are sequences of characters *)

S_do == <<"d", "o">>
S_save == <<"s", "a", "v", "e">>
S_exit == <<"e", "x", "i", "t">>
S_next_stage == <<"n", "e", "x", "t", "_", "s", "t", "a", "g", "e">>
S_averages == <<"a", "v", "e", "r", "a", "g", "e", "s">>
S_fields == <<"f", "i", "e", "l", "d", "s">>
S_bogus == <<"b", "o", "g", "u", "s">>
\* 'Next  Stage': upper case and two spaces
S_Next__Stage == <<"N", "e", "x", "t", " ", " ", "S", "t", "a", "g", "e">>

\* str.lower() on the characters the model uses
Lower(c) ==
    CASE c = "N" -> "n"
      [] c = "S" -> "s"
      [] c = "E" -> "e"
      [] c = "F" -> "f"
      [] OTHER -> c

\* the character class [ \t_] of _subsequent_spaces
IsSpace(c) == c \in {" ", "\t", "_"}

RECURSIVE CollapseSpaces(_)
CollapseSpaces(s) ==
    IF s = <<>> THEN <<>>
    ELSE IF IsSpace(Head(s))
         THEN IF Len(s) > 1 /\ IsSpace(s[2])
              THEN CollapseSpaces(Tail(s))
              ELSE <<"_">> \o CollapseSpaces(Tail(s))
         ELSE <<Head(s)>> \o CollapseSpaces(Tail(s))

\* _string_normalise(s) with lower=True, spaces='_'
_string_normalise(s) ==
    CollapseSpaces([i \in 1..Len(s) |-> Lower(s[i])])

----------------------------------------------------------------------------
(* The registry sim.action_abbreviations built by SimulationCore.__init__, *)
(* plus one unprefixed abbreviation added with add_action_abbrev.          *)

action_abbreviations ==
    (S_save \o <<"_">> \o S_averages) :> "save_averages"
        @@ (S_save \o <<"_">> \o S_fields) :> "save_fields"
        @@ (S_do \o <<"_">> \o S_next_stage) :> "hysteresis_next_stage"
        @@ (S_do \o <<"_">> \o S_exit) :> "hysteresis_exit"
        @@ S_averages :> "user_averages"

----------------------------------------------------------------------------
(* Elements of a save/do tuple: callables, string tags, other objects and  *)
(* the closing When.                                                       *)

Callable(fn) == [kind |-> "callable", chars |-> <<>>, fn |-> fn, spec |-> never]
Str(chars) == [kind |-> "str", chars |-> chars, fn |-> "", spec |-> never]
OtherObject == [kind |-> "other", chars |-> <<>>, fn |-> "", spec |-> never]
WhenObject(spec) == [kind |-> "when", chars |-> <<>>, fn |-> "", spec |-> spec]

\* a tuple (thing_1, ..., thing_n, when)
Tuple(elems) == [iterable |-> TRUE, elems |-> elems]
\* an entry that list() cannot iterate (None, a number)
NotIterable == [iterable |-> FALSE, elems |-> <<>>]

List(items) == [iterable |-> TRUE, items |-> items]
NotAList == [iterable |-> FALSE, items |-> <<>>]

----------------------------------------------------------------------------
(* Exceptions *)

NoError ==
    [type |-> "none", kind |-> "none", prefix |-> <<>>, thing |-> OtherObject,
     available |-> {}, key |-> ""]

\* "... you want to {prefix} '{thing}' but I don't know how to do it ...
\*  Available strings are: {keys}."
UnknownThingError(prefix, thing, predefined_actions) ==
    [type |-> "ValueError", kind |-> "unknown_thing", prefix |-> prefix,
     thing |-> thing, available |-> DOMAIN predefined_actions, key |-> ""]

\* "Bad syntax for argument '{prefix}' of the method 'hysteresis': ..."
BadSyntaxError(prefix) ==
    [type |-> "ValueError", kind |-> "bad_syntax", prefix |-> prefix,
     thing |-> OtherObject, available |-> {}, key |-> ""]

\* "... contains two or more specifications for thing_to_save = {key} ..."
DuplicateError(key) ==
    [type |-> "ValueError", kind |-> "duplicate", prefix |-> <<>>,
     thing |-> OtherObject, available |-> {}, key |-> key]

----------------------------------------------------------------------------
(* _append_x_list *)

NotFound == [found |-> FALSE, fn |-> ""]
Found(fn) == [found |-> TRUE, fn |-> fn]

\* faulty variant: an object that is neither callable nor string is taken as an action
ResolveAnyObject(thing, prefix, predefined_actions) ==
    IF thing.kind = "callable" THEN Found(thing.fn)
    ELSE IF thing.kind = "str"
    THEN LET prefixed == _string_normalise(prefix \o <<" ">> \o thing.chars)
             plain == _string_normalise(thing.chars)
         IN  IF prefixed \in DOMAIN predefined_actions
             THEN Found(predefined_actions[prefixed])
             ELSE IF plain \in DOMAIN predefined_actions
             THEN Found(predefined_actions[plain])
             ELSE NotFound
    ELSE Found("object")

\* faulty variant: the tag alone is looked up before the prefixed tag
ResolvePlainFirst(thing, prefix, predefined_actions) ==
    IF thing.kind = "callable" THEN Found(thing.fn)
    ELSE IF thing.kind = "str"
    THEN LET prefixed == _string_normalise(prefix \o <<" ">> \o thing.chars)
             plain == _string_normalise(thing.chars)
         IN  IF plain \in DOMAIN predefined_actions
             THEN Found(predefined_actions[plain])
             ELSE IF prefixed \in DOMAIN predefined_actions
             THEN Found(predefined_actions[prefixed])
             ELSE NotFound
    ELSE NotFound

\* the action a thing stands for: lines 90-106
Resolve(thing, prefix, predefined_actions) ==
    IF thing.kind = "callable" THEN Found(thing.fn)
    ELSE IF thing.kind = "str"
    THEN LET prefixed == _string_normalise(prefix \o <<" ">> \o thing.chars)
             plain == _string_normalise(thing.chars)
         IN  IF prefixed \in DOMAIN predefined_actions
             THEN Found(predefined_actions[prefixed])
             ELSE IF plain \in DOMAIN predefined_actions
             THEN Found(predefined_actions[plain])
             ELSE NotFound
    ELSE NotFound

\* faulty variant: an empty tuple is rejected like an entry that cannot be iterated
ItemShapeEmptyIsError(tuple_item) ==
    IF ~tuple_item.iterable THEN "type_error"
    ELSE IF tuple_item.elems = <<>> THEN "type_error"
    ELSE "expand"

\* what list(tuple_item) and "if not list_item: continue" make of an entry
ItemShape(tuple_item) ==
    IF ~tuple_item.iterable THEN "type_error"
    ELSE IF tuple_item.elems = <<>> THEN "continue"
    ELSE "expand"

RECURSIVE AppendThings(_, _, _, _, _)
AppendThings(target_list, things, when_, prefix, predefined_actions) ==
    IF things = <<>> THEN [target |-> target_list, error |-> NoError]
    ELSE LET action == Resolve(Head(things), prefix, predefined_actions)
         IN  IF action.found
             THEN AppendThings(
                      Append(target_list, [what |-> action.fn, when |-> when_]),
                      Tail(things), when_, prefix, predefined_actions)
             ELSE [target |-> target_list,
                   error |-> UnknownThingError(prefix, Head(things),
                                               predefined_actions)]

RECURSIVE AppendItems(_, _, _, _)
AppendItems(target_list, items, prefix, predefined_actions) ==
    IF items = <<>> THEN [target |-> target_list, error |-> NoError]
    ELSE LET tuple_item == Head(items)
             shape == ItemShape(tuple_item)
         IN  IF shape = "type_error"
             THEN [target |-> target_list, error |-> BadSyntaxError(prefix)]
             ELSE IF shape = "continue"
             THEN AppendItems(target_list, Tail(items), prefix,
                              predefined_actions)
             ELSE LET list_item == tuple_item.elems
                      things == SubSeq(list_item, 1, Len(list_item) - 1)
                      when_ == list_item[Len(list_item)].spec
                      done == AppendThings(target_list, things, when_, prefix,
                                           predefined_actions)
                  IN  IF done.error # NoError THEN done
                      ELSE AppendItems(done.target, Tail(items), prefix,
                                       predefined_actions)

_append_x_list(target_list, input_list, prefix, predefined_actions) ==
    IF ~input_list.iterable
    THEN [target |-> target_list, error |-> BadSyntaxError(prefix)]
    ELSE AppendItems(target_list, input_list.items, prefix, predefined_actions)

\* faulty variant: 'save' is processed before 'do'
JoinSaveFirst(save_list, do_list, predefined_actions) ==
    LET saved == _append_x_list(<<>>, save_list, S_save, predefined_actions)
    IN  IF saved.error # NoError THEN saved
        ELSE _append_x_list(saved.target, do_list, S_do, predefined_actions)

_join_save_and_do_lists(save_list, do_list, predefined_actions) ==
    LET done == _append_x_list(<<>>, do_list, S_do, predefined_actions)
    IN  IF done.error # NoError THEN done
        ELSE _append_x_list(done.target, save_list, S_save, predefined_actions)

----------------------------------------------------------------------------
(* The duplicate check of simulation_hysteresis, lines 260-273: the key of *)
(* the first entry whose str(what) was already seen, "" when there is none *)

\* faulty variant: only neighbouring entries are compared
FirstDuplicateAdjacent(tuples) ==
    LET hits == {i \in 2..Len(tuples) : tuples[i].what = tuples[i - 1].what}
    IN  IF hits = {} THEN ""
        ELSE tuples[CHOOSE i \in hits : \A j \in hits : i <= j].what

FirstDuplicate(tuples) ==
    LET hits == {i \in 1..Len(tuples) :
                    \E j \in 1..(i - 1) : tuples[j].what = tuples[i].what}
    IN  IF hits = {} THEN ""
        ELSE tuples[CHOOSE i \in hits : \A j \in hits : i <= j].what

----------------------------------------------------------------------------
(* Optional numbers: None or a value *)

None == [some |-> FALSE, v |-> 0]
Some(v) == [some |-> TRUE, v |-> v]

\* faulty variant: the first item that is not None
Minimum2First(a, b) == IF ~a.some THEN b ELSE a

\* min((item for item in ls if item is not None), default=None)
Minimum2(a, b) ==
    IF ~a.some THEN b
    ELSE IF ~b.some THEN a
    ELSE IF a.v <= b.v THEN a ELSE b

Minimum3(a, b, c) == Minimum2(Minimum2(a, b), c)

NoDeltas == <<None, None, None>>

----------------------------------------------------------------------------
(* The factory every(arg1, arg2, first, last): an argument is a string, a  *)
(* number or None; first is a number, last a number or None.               *)

ArgStr(s) == [kind |-> "str", s |-> s, v |-> 0]
ArgNum(v) == [kind |-> "num", s |-> "", v |-> v]
ArgNone == [kind |-> "none", s |-> "", v |-> 0]

NotCalled ==
    [kind |-> "pending", type |-> "", what |-> "", spec |-> never]
Returned(spec) ==
    [kind |-> "returned", type |-> "", what |-> "", spec |-> spec]
\* raise ValueError("Bad usage of 'every': ...")
BadUsage(what) ==
    [kind |-> "raised", type |-> "ValueError", what |-> what, spec |-> never]

\* faulty variant: a window whose last equals its first is let through
everyLastMayEqualFirst(arg1, arg2, first, last) ==
    LET identifier == IF arg1.kind = "str" THEN arg1
                      ELSE IF arg1.kind = "num" /\ arg2.kind = "str" THEN arg2
                      ELSE ArgNone
        delta == IF arg1.kind = "str"
                 THEN (IF arg2.kind = "num" THEN Some(arg2.v) ELSE None)
                 ELSE IF arg1.kind = "num" THEN Some(arg1.v)
                 ELSE None
    IN  IF identifier.kind # "str" THEN BadUsage("identifier")
        ELSE IF last.some /\ last.v < first THEN BadUsage("last")
        ELSE IF delta.some /\ delta.v <= 0 THEN BadUsage("delta")
        ELSE Returned(EverySpec(identifier.s, delta.some, delta.v, first,
                                last.some, last.v))

every(arg1, arg2, first, last) ==
    LET identifier == IF arg1.kind = "str" THEN arg1
                      ELSE IF arg1.kind = "num" /\ arg2.kind = "str" THEN arg2
                      ELSE ArgNone
        delta == IF arg1.kind = "str"
                 THEN (IF arg2.kind = "num" THEN Some(arg2.v) ELSE None)
                 ELSE IF arg1.kind = "num" THEN Some(arg1.v)
                 ELSE None
    IN  IF identifier.kind # "str" THEN BadUsage("identifier")
        ELSE IF last.some /\ last.v <= first THEN BadUsage("last")
        ELSE IF delta.some /\ delta.v <= 0 THEN BadUsage("delta")
        ELSE Returned(EverySpec(identifier.s, delta.some, delta.v, first,
                                last.some, last.v))

NoEveryCall ==
    [arg1 |-> ArgNone, arg2 |-> ArgNone, first |-> 0, last |-> None]

\* the tolerance and the factory variables while they are not followed
TolsIdle == tols = None /\ nt_tols = NTFalse /\ results_tols = <<>>

EveryIdle == every_call = NoEveryCall /\ every_ret = NotCalled

----------------------------------------------------------------------------
(* Throttler: last_called maps a key to the time of its last allowed call, *)
(* None while the key is not in the dict.                                  *)

Keys == {"key_A", "key_B"}

\* Throttler.__init__: self.last_called = {}
EmptyDict == [k \in Keys |-> None]

\* faulty variant: the delay must be exceeded, the expiry instant is denied
is_allowedAfterExpiry(dict, key, report_delay, monotonic) ==
    LET last_time == IF dict[key].some THEN dict[key].v ELSE 0
    IN  IF monotonic - last_time > report_delay
        THEN [ret |-> TRUE,
              last_called |-> [dict EXCEPT ![key] = Some(monotonic)]]
        ELSE [ret |-> FALSE, last_called |-> dict]

\* faulty variant: one timer for all keys, the latest allowed call of any key
is_allowedSharedTimer(dict, key, report_delay, monotonic) ==
    LET stamps == {dict[k].v : k \in {j \in Keys : dict[j].some}}
        last_time == IF stamps = {} THEN 0
                     ELSE CHOOSE m \in stamps : \A x \in stamps : x <= m
    IN  IF monotonic - last_time >= report_delay
        THEN [ret |-> TRUE,
              last_called |-> [dict EXCEPT ![key] = Some(monotonic)]]
        ELSE [ret |-> FALSE, last_called |-> dict]

\* is_allowed(key, report_delay) with now = time.monotonic() = monotonic:
\* the value returned and self.last_called afterwards
is_allowed(dict, key, report_delay, monotonic) ==
    LET last_time == IF dict[key].some THEN dict[key].v ELSE 0
    IN  IF monotonic - last_time >= report_delay
        THEN [ret |-> TRUE,
              last_called |-> [dict EXCEPT ![key] = Some(monotonic)]]
        ELSE [ret |-> FALSE, last_called |-> dict]

NoThrottlerCall ==
    [key |-> "", report_delay |-> 0, now |-> 0, before |-> EmptyDict,
     alone |-> FALSE]

ThrottlerIdle ==
    /\ last_called = EmptyDict
    /\ now = 0
    /\ allowed = FALSE
    /\ last_call = NoThrottlerCall
    /\ isolated = [k \in Keys |-> EmptyDict]

\* the driver loop's variables while no hysteresis call is followed
LoopIdle ==
    /\ clock = SimulationClock
    /\ clock_class = "SimulationClock"
    /\ H_ext_list = <<>>
    /\ h_idx = 0
    /\ stage = None
    /\ next_save_time = <<>>
    /\ entry_idx = 0
    /\ fired = <<>>
    /\ stages_run = <<>>
    /\ deltas = NoDeltas

----------------------------------------------------------------------------
(* When.next_time with the tolerance tols[identifier]; tol = 0 stands for  *)
(* "no tolerance configured for this identifier".  isinstance(nt, (int,    *)
(* float)) also holds for the booleans, which count as 1 and 0 in          *)
(* abs(nt - tt) and in nt + tol.                                           *)

AsNumber(raw) == IF raw.isnum THEN raw.n ELSE IF raw.b THEN 1 ELSE 0

When_next_time(spec, identifier, tt, tol) ==
    LET raw == next_time(spec, identifier, tt)
    IN  IF raw = NTNoReturn THEN raw
        ELSE IF tol > 0 /\ Abs(AsNumber(raw) - tt[identifier]) < tol
        THEN next_time(spec, identifier,
                       [tt EXCEPT ![identifier] = AsNumber(raw) + tol])
        ELSE raw

\* match_tolerances of simulation_hysteresis: negligible_time = 1e-20 s for
\* 'time' and 'stage_time' lies below one unit of the model's counters; the
\* tolerance branch needs a result that equals the current value, and
\* moving the clock by 1e-20 s then changes no answer of the schedules
\* followed here
match_tolerances(identifier) == 0

----------------------------------------------------------------------------
(* _next_deltas and _next_time *)

Delta(event, clk, name) ==
    LET n == When_next_time(event, name, clk, match_tolerances(name))
    IN  IF n.isnum THEN Some(n.n - clk[name]) ELSE None

_next_deltas(event, clk, suggest) ==
    <<Minimum3(Delta(event, clk, "step"), Delta(event, clk, "stage_step"),
               suggest[1]),
      Minimum3(Delta(event, clk, "time"), Delta(event, clk, "stage_time"),
               suggest[2]),
      Minimum2(Delta(event, clk, "real_time"), suggest[3])>>

\* delta(name, starting_time) of _next_time; starting_time "" stands for None
AbsDelta(event, clk, name, starting_time) ==
    LET n == When_next_time(event, name, clk, match_tolerances(name))
    IN  IF ~n.isnum THEN None
        ELSE IF starting_time # "" THEN Some(n.n - clk[starting_time])
        ELSE Some(n.n)

_next_time(event, clk) ==
    <<Minimum2(AbsDelta(event, clk, "step", "zero_stage_step"),
               AbsDelta(event, clk, "stage_step", "")),
      Minimum2(AbsDelta(event, clk, "time", "zero_stage_time"),
               AbsDelta(event, clk, "stage_time", "")),
      AbsDelta(event, clk, "real_time", "")>>

----------------------------------------------------------------------------
(* The class of sim.clock.  SimulationCore.__init__ sets it to a           *)
(* SimulationClock, a dataclass: its counters are attributes, and it       *)
(* defines none of get, __getitem__ and copy, which the predicates, the    *)
(* tolerance wrapper and _next_deltas / _next_time call on their argument  *)
(* this_time: TimeDict.  "MappingClock" stands for a clock object that     *)
(* offers the attributes and these three methods.                          *)

ClockClasses == {"SimulationClock", "MappingClock"}

ClockMethods(cls) ==
    IF cls = "SimulationClock" THEN {} ELSE {"get", "__getitem__", "copy"}

\* the keys of match_tolerances
TolIdentifiers == {"time", "stage_time"}

\* the first method of this_time that spec.next_time(identifier, this_time)
\* calls, "" when it returns without touching this_time
RECURSIVE FirstAccess(_, _)
FirstAccess(spec, identifier) ==
    CASE spec.kind = "at" ->
            IF spec.identifier # identifier THEN "" ELSE "get"
      [] spec.kind = "every" -> "get"
      [] spec.kind = "or" ->
            IF FirstAccess(spec.spec1, identifier) # ""
            THEN FirstAccess(spec.spec1, identifier)
            ELSE FirstAccess(spec.spec2, identifier)
      [] spec.kind = "and" -> "copy"
      [] spec.kind = "never" -> ""

\* AttributeError: 'SimulationClock' object has no attribute <method>;
\* TypeError: 'SimulationClock' object is not subscriptable
ClockAccessError(type_, method) ==
    [type |-> type_, kind |-> "clock_access", prefix |-> <<>>,
     thing |-> OtherObject, available |-> {}, key |-> method]

\* what When.next_time(identifier, clock, tols=match_tolerances) raises on a
\* clock of class cls, NoError when it returns: the predicate's own access
\* comes first, then this_time[identifier] of the tolerance branch, which is
\* entered for every result, the booleans included
NextTimeRaises(spec, identifier, cls) ==
    LET m == FirstAccess(spec, identifier)
    IN  IF m # "" /\ m \notin ClockMethods(cls)
        THEN ClockAccessError("AttributeError", m)
        ELSE IF identifier \in TolIdentifiers
                /\ "__getitem__" \notin ClockMethods(cls)
        THEN ClockAccessError("TypeError", "__getitem__")
        ELSE NoError

\* the first exception of a sequence of calls
FirstError(errs) ==
    IF \E i \in 1..Len(errs) : errs[i] # NoError
    THEN errs[CHOOSE i \in 1..Len(errs) :
                 /\ errs[i] # NoError
                 /\ \A j \in 1..(i - 1) : errs[j] = NoError]
    ELSE NoError

\* _next_deltas asks for step, stage_step, time, stage_time, real_time
NextDeltasRaises(event, cls) ==
    FirstError(<<NextTimeRaises(event, "step", cls),
                 NextTimeRaises(event, "stage_step", cls),
                 NextTimeRaises(event, "time", cls),
                 NextTimeRaises(event, "stage_time", cls),
                 NextTimeRaises(event, "real_time", cls)>>)

\* _next_time asks for time, stage_time, step, stage_step, real_time
NextTimeTripleRaises(event, cls) ==
    FirstError(<<NextTimeRaises(event, "time", cls),
                 NextTimeRaises(event, "stage_time", cls),
                 NextTimeRaises(event, "step", cls),
                 NextTimeRaises(event, "stage_step", cls),
                 NextTimeRaises(event, "real_time", cls)>>)

----------------------------------------------------------------------------
(* SimulationClock.inc_stage and the registered actions *)

\* faulty variant: the stage number given is ignored
inc_stageAlwaysIncrements(clk, stage_) ==
    [clk EXCEPT !.stage = clk.stage + 1,
                !.stage_step = 0,
                !.stage_time = 0,
                !.convergence = FALSE,
                !.zero_stage_step = clk.step,
                !.zero_stage_time = clk.time]

\* faulty variant: the step count at the start of the stage is not recorded
inc_stageKeepsZeroStep(clk, stage_) ==
    [clk EXCEPT !.stage = IF stage_.some THEN stage_.v ELSE clk.stage + 1,
                !.stage_step = 0,
                !.stage_time = 0,
                !.convergence = FALSE,
                !.zero_stage_time = clk.time]

inc_stage(clk, stage_) ==
    [clk EXCEPT !.stage = IF stage_.some THEN stage_.v ELSE clk.stage + 1,
                !.stage_step = 0,
                !.stage_time = 0,
                !.convergence = FALSE,
                !.zero_stage_step = clk.step,
                !.zero_stage_time = clk.time]

hysteresis_next_stage(clk) == [clk EXCEPT !.stage_end = TRUE]

hysteresis_exit(clk) ==
    [clk EXCEPT !.exit_hysteresis = TRUE, !.stage_end = TRUE]

\* what(self): the clock after the action ran; the save actions and the
\* user's callables of the model leave the clock alone
Invoke(what, clk) ==
    CASE what = "hysteresis_exit" -> hysteresis_exit(clk)
      [] what = "hysteresis_next_stage" -> hysteresis_next_stage(clk)
      [] OTHER -> clk

----------------------------------------------------------------------------
(* simulation_hysteresis *)

\* self.max_time_reached = SI(1, "s"), in units of 10 ms
max_time_reached == 100

\* the default convergence_check = every('step', 5)
convergence_check == EverySpec("step", TRUE, 5, 0, FALSE, 0)

\* 99% of max_time_reached
NearlyRunaway == (99 * max_time_reached) \div 100

RunawayError ==
    [type |-> "RuntimeError", kind |-> "runaway", prefix |-> <<>>,
     thing |-> OtherObject, available |-> {}, key |-> ""]

\* faulty variant: the fields are taken from the start of the list
SliceStartFromZero(stage_, n) == 0

\* first index (0-based) of the slice H_ext_list[stage-1:] of a list of n
SliceStart(stage_, n) ==
    IF stage_ - 1 >= 0
    THEN (IF stage_ - 1 > n THEN n ELSE stage_ - 1)
    ELSE (IF n + stage_ - 1 < 0 THEN 0 ELSE n + stage_ - 1)

\* faulty variant: the stage-end flag is looked at before the exit flag
AfterPassStageEndFirst(clk) ==
    IF clk.stage_end THEN "break"
    ELSE IF clk.exit_hysteresis THEN "return"
    ELSE "advance"

\* faulty variant: the stage-end flag does not end the loop
AfterPassIgnoresStageEnd(clk) ==
    IF clk.exit_hysteresis THEN "return" ELSE "advance"

\* lines 366-374: return on exit, break on stage end, else advance
AfterPass(clk) ==
    IF clk.exit_hysteresis THEN "return"
    ELSE IF clk.stage_end THEN "break"
    ELSE "advance"

TargetTime(clk, ds) ==
    IF ds[2].some THEN clk.stage_time + ds[2].v ELSE max_time_reached

MaxIt(ds) == IF ds[1].some THEN ds[1].v ELSE -1

\* faulty variant: a reached time of exactly 99% of max_time_reached raises
AfterAdvanceInclusive(time_reached) ==
    IF 100 * time_reached >= 99 * max_time_reached THEN "raise" ELSE "report"

\* lines 381-388: if time_reached > 0.99 * self.max_time_reached: raise,
\* else _update_progress_file(...)
AfterAdvance(time_reached) ==
    IF 100 * time_reached > 99 * max_time_reached THEN "raise" ELSE "report"

\* the key under which _update_progress_file asks the Throttler
ProgressKey == "hysteresis_reporting"

\* the default progress_message_minimum_delay = 60.0 s, in units of 30 s
progress_message_minimum_delay == 2

\* _progress_throttler = Throttler() of a process that has not reported yet
NoProgressYet == [k \in {ProgressKey} |-> None]

\* _update_progress_file: the snapshot is written (ret) iff the Throttler
\* dict allows it; a failure to write the file is logged, not raised
_update_progress_file(dict, delay, monotonic) ==
    is_allowed(dict, ProgressKey, delay, monotonic)

----------------------------------------------------------------------------
(* SpecWhen: next_time / match_time applied to predicates and TimeDicts    *)
(* drawn from bounded sets, and the iteration loop this := next of         *)
(* tests/when_test.py.                                                     *)

\* a period large enough for the closeness tolerance to span one counter unit
BigDelta == 1050000000

EveryStep10 == EverySpec("step", TRUE, 10, 0, FALSE, 0)
EveryStep15 == EverySpec("step", TRUE, 15, 0, FALSE, 0)
EveryStep3 == EverySpec("step", TRUE, 3, 0, FALSE, 0)
EveryStep2Last21 == EverySpec("step", TRUE, 2, 0, TRUE, 21)
EveryStep4First10 == EverySpec("step", TRUE, 4, 10, FALSE, 0)
EveryStep5First10Last20 == EverySpec("step", TRUE, 5, 10, TRUE, 20)
WindowStep5To10 == EverySpec("step", FALSE, 0, 5, TRUE, 10)
EveryTime10 == EverySpec("time", TRUE, 10, 0, FALSE, 0)
EveryStepBig == EverySpec("step", TRUE, BigDelta, 0, FALSE, 0)

\* (every('step',2,last=21) & every('step',4,first=10)) | at('step',15)
GoldenSpec ==
    OrSpec(AndSpec(EveryStep2Last21, EveryStep4First10), at("step", 15))

Leaves ==
    {at("step", 5), at("step", 10), at("step", 15), at("time", 3),
     at_flag("convergence", TRUE), at_flag("convergence", FALSE),
     EveryStep10, EveryStep15, EveryStep3, EveryStep2Last21,
     EveryStep4First10, EveryStep5First10Last20, WindowStep5To10,
     EveryTime10, never}

Combined ==
    {AndSpec(a, b) : a \in Leaves, b \in Leaves}
        \cup {OrSpec(a, b) : a \in Leaves, b \in Leaves}
        \cup {GoldenSpec}

WhenIdents == {"step", "time", "convergence"}

\* TimeDicts with small counters
SmallTimes ==
    {[SimulationClock EXCEPT !.step = s, !.time = tc[1], !.convergence = tc[2]] :
        s \in 0..MaxStep, tc \in {<<0, FALSE>>, <<3, TRUE>>}}

\* TimeDicts whose step counter is next to a multiple of BigDelta
BigTimes ==
    {[SimulationClock EXCEPT !.step = BigDelta + d] : d \in {-2, -1, 0, 1}}

\* every('time', 100.0) | every('time', 30.0)
TimeGrids ==
    OrSpec(EverySpec("time", TRUE, 100, 0, FALSE, 0),
           EverySpec("time", TRUE, 30, 0, FALSE, 0))

WindowStep0To2 == EverySpec("step", FALSE, 0, 0, TRUE, 2)

\* predicates asked with a tolerance, besides the leaves
TolSpecs ==
    {TimeGrids, WindowStep0To2, OrSpec(at("step", 5), EveryStep3),
     AndSpec(EveryStep3, EveryStep4First10),
     OrSpec(AndSpec(EveryStep3, EveryStep4First10), at("step", 5))}

\* tols[ident]: on whole-numbered counters every tolerance 0 < tol <= 1
\* (1e-9 in the tests) acts like 1
Tolerances == {Some(0), Some(1), Some(2)}

WhenInit ==
    /\ \/ /\ when \in Leaves \cup Combined
          /\ this_time \in SmallTimes
          /\ ident \in WhenIdents
          /\ tols = None
       \/ /\ when \in Leaves \cup TolSpecs
          /\ this_time \in SmallTimes
          /\ ident \in {"step", "time"}
          /\ tols \in Tolerances
       \/ /\ when \in Leaves \cup {EveryStepBig}
          /\ this_time \in BigTimes
          /\ ident \in WhenIdents
          /\ tols = None
    /\ trial_clock = this_time
    /\ nt = NTFalse
    /\ nt_tols = NTFalse
    /\ matched = FALSE
    /\ results = <<>>
    /\ results_tols = <<>>
    /\ wpc = "start"
    /\ save = List(<<>>)
    /\ do = List(<<>>)
    /\ thing_when_tuples = <<>>
    /\ error = NoError
    /\ pc = "idle"
    /\ LoopIdle
    /\ EveryIdle
    /\ ThrottlerIdle

\* w.next_time(ident, clock, tols) for the tolerance drawn
WithTols(spec, identifier, tt) ==
    When_next_time(spec, identifier, tt, IF tols.some THEN tols.v ELSE 0)

\* nt = w.next_time(ident, this_time); matched = w.match_time(this_time);
\* nt_tols = w.next_time(ident, this_time, tols)
CallNextTime ==
    /\ wpc = "start"
    /\ nt' = next_time(when, ident, this_time)
    /\ nt_tols' = WithTols(when, ident, this_time)
    /\ matched' = match_time(when, this_time)
    /\ results' = <<[this |-> this_time[ident], next |-> nt']>>
    /\ results_tols' = <<[this |-> this_time[ident], next |-> nt_tols']>>
    /\ wpc' = "called"
    /\ UNCHANGED <<when, this_time, ident, tols, trial_clock>>
    /\ UNCHANGED <<schedVars, loopVars, everyVars, throttleVars>>

\* one more round of the test loop: this = next_t; next_t = w.next_time(...)
IterateNext ==
    /\ wpc = "called"
    /\ nt.isnum
    /\ nt.n < BigDelta
    /\ Len(results) < MaxResults
    /\ Len(results_tols) = 1
    /\ LET moved == [this_time EXCEPT ![ident] = nt.n] IN
        /\ this_time' = moved
        /\ nt' = next_time(when, ident, moved)
        /\ nt_tols' = WithTols(when, ident, moved)
        /\ matched' = match_time(when, moved)
        /\ results' = Append(results, [this |-> nt.n, next |-> nt'])
    /\ UNCHANGED <<when, ident, wpc, tols, results_tols, trial_clock>>
    /\ UNCHANGED <<schedVars, loopVars, everyVars, throttleVars>>

\* one more round of the loop run with a tolerance:
\* this = next_t; next_t = w.next_time('time', clock, tols)
IterateNextTols ==
    /\ wpc = "called"
    /\ tols.some
    /\ nt_tols.isnum
    /\ Len(results_tols) < MaxTolResults
    /\ Len(results) = 1
    /\ LET moved == [this_time EXCEPT ![ident] = nt_tols.n] IN
        /\ this_time' = moved
        /\ nt' = next_time(when, ident, moved)
        /\ nt_tols' = WithTols(when, ident, moved)
        /\ matched' = match_time(when, moved)
        /\ results_tols' =
               Append(results_tols, [this |-> nt_tols.n, next |-> nt_tols'])
    /\ UNCHANGED <<when, ident, wpc, tols, results, trial_clock>>
    /\ UNCHANGED <<schedVars, loopVars, everyVars, throttleVars>>

WhenNext == CallNextTime \/ IterateNext \/ IterateNextTols

SpecWhen == WhenInit /\ [][WhenNext]_vars


----------------------------------------------------------------------------
(* Claims on the predicate algebra, checked under SpecWhen *)

Called == wpc = "called"

GoldenExpected ==
    <<[this |-> 0, next |-> NTNum(10)], [this |-> 10, next |-> NTNum(14)],
      [this |-> 14, next |-> NTNum(15)], [this |-> 15, next |-> NTNum(18)],
      [this |-> 18, next |-> NTFalse]>>

GoldenRun ==
    /\ Called
    /\ when = GoldenSpec
    /\ ident = "step"
    /\ results[1].this = 0

\* C2: iterating step := next('step') from step 0 on the golden predicate
\* yields 0->10, 10->14, 14->15, 15->18, 18->False and then stops: every
\* recorded pair is the expected one, and the loop stops exactly at the end
\* of the expected sequence.
C2_GoldenTrace ==
    GoldenRun =>
        /\ Len(results) <= Len(GoldenExpected)
        /\ \A i \in 1..Len(results) : results[i] = GoldenExpected[i]
        /\ (~nt.isnum <=> Len(results) = Len(GoldenExpected))

C2_Witness == GoldenRun /\ results = GoldenExpected

BothMatchAt(v) ==
    LET moved == [this_time EXCEPT ![ident] = v]
    IN  match_time(when.spec1, moved) /\ match_time(when.spec2, moved)

\* C3: whenever (a & b).next(id, clock) returns a number v, v is the smallest
\* value greater than clock[id] at which a and b both match (other counters
\* unchanged), for every kind of child.
C3_AndSmallestJointMatch ==
    (Called /\ when.kind = "and" /\ nt.isnum) =>
        /\ nt.n > this_time[ident]
        /\ BothMatchAt(nt.n)
        /\ \A u \in (this_time[ident] + 1)..(nt.n - 1) : ~BothMatchAt(u)

NumericAt ==
    Called /\ when.kind = "at" /\ ~when.isflag /\ when.identifier = ident

\* C8: for at(id, v) with numeric v, matches is true iff clock[id] = v, and
\* next(id, clock) is v while clock[id] < v and False once clock[id] >= v.
C8_AtNumeric ==
    NumericAt =>
        /\ matched <=> (this_time[ident] = when.value)
        /\ this_time[ident] < when.value => nt = NTNum(when.value)
        /\ this_time[ident] >= when.value => nt = NTFalse

C8_Witness ==
    NumericAt /\ this_time[ident] = when.value /\ matched /\ nt = NTFalse

FlagAt ==
    Called /\ when.kind = "at" /\ when.isflag /\ when.identifier = ident

\* C9: for a flag predicate with target True, matches is true iff the flag
\* is True and next is True whatever the flag is; with target False, next is
\* the boolean (flag = False).
C9_AtFlag ==
    FlagAt =>
        /\ when.bvalue => (matched <=> this_time[ident]) /\ nt = NTTrue
        /\ ~when.bvalue => nt = NTBool(~this_time[ident])

C9_Witness ==
    FlagAt /\ when.bvalue /\ ~this_time[ident] /\ ~matched /\ nt = NTTrue

\* an every(id, delta) asked on its own identifier from inside its window
PeriodicInWindow ==
    /\ Called
    /\ when.kind = "every"
    /\ when.has_delta
    /\ when.identifier = ident
    /\ this_time[ident] >= when.first
    /\ when.has_last => this_time[ident] < when.last

\* first + k*delta for the smallest k with first + k*delta > clock[id]
GridAfter ==
    when.first
        + (((this_time[ident] - when.first) \div when.delta) + 1) * when.delta

\* the result for grid point g: g itself, or False when g lies beyond last
GridResult(g) == IF when.has_last /\ g > when.last THEN NTFalse ELSE NTNum(g)

\* clock[id] lies below the next grid point by no more than the closeness
\* tolerance of the ratio (t - first) / delta
WithinToleranceBelowGrid ==
    (GridAfter - this_time[ident]) <= (GridAfter - when.first) \div RelTolInv

\* C10 as stated: inside the window next(id, clock) is the smallest grid
\* point first + k*delta strictly greater than clock[id], for every clock.
C10_EveryNextIsGridAfter == PeriodicInWindow => nt = GridResult(GridAfter)

\* C10 as amended: the same, except that a clock value within the closeness
\* tolerance below a grid point counts as that grid point, so the result is
\* one full period after it.
C10_EveryNextWithTolerance ==
    PeriodicInWindow =>
        nt = IF WithinToleranceBelowGrid
             THEN GridResult(GridAfter + when.delta)
             ELSE GridResult(GridAfter)

C10_Witness ==
    /\ PeriodicInWindow
    /\ when = EveryStep3
    /\ this_time[ident] = BigDelta - 1
    /\ WithinToleranceBelowGrid
    /\ matched
    /\ nt = NTNum(BigDelta + 3)

\* an every(id, delta, first, last) asked on its own identifier
PeriodicWithLast ==
    /\ Called
    /\ when.kind = "every"
    /\ when.has_delta
    /\ when.has_last
    /\ when.identifier = ident

\* C11: for every(id, delta, first, last), matches is false before first and
\* after last and true at last when last lies on the grid; next is first
\* before first, and False from last on or when the next grid point would
\* exceed last.
C11_EveryWindow ==
    PeriodicWithLast =>
        LET t == this_time[ident] IN
        /\ (t < when.first \/ t > when.last) => ~matched
        /\ (t = when.last /\ (when.last - when.first) % when.delta = 0)
                => matched
        /\ t < when.first => nt = NTNum(when.first)
        /\ t >= when.last => nt = NTFalse
        /\ (t >= when.first /\ GridAfter > when.last) => nt = NTFalse

C11_Witness ==
    /\ PeriodicWithLast
    /\ when = EveryStep5First10Last20
    /\ this_time[ident] = 20
    /\ matched
    /\ nt = NTFalse

\* a window-only every(id, first = f, last = l) asked on its own identifier
WindowOnly ==
    /\ Called
    /\ when.kind = "every"
    /\ ~when.has_delta
    /\ when.has_last
    /\ when.identifier = ident

\* C12 as stated: a window-only every answers next with True for every clock
\* value that does not exceed last, and with False only beyond last.
C12_WindowNextTrueUpToLast ==
    WindowOnly => nt = NTBool(this_time[ident] <= when.last)

\* C12 as amended: a window-only every answers next with True for every
\* clock value below last and with False from last on, so that at last
\* itself the predicate matches while next is False.
C12_WindowNextTrueBelowLast ==
    WindowOnly =>
        /\ nt = NTBool(this_time[ident] < when.last)
        /\ matched <=> (when.first <= this_time[ident]
                            /\ this_time[ident] <= when.last)

C12_Witness ==
    /\ WindowOnly
    /\ when = WindowStep5To10
    /\ this_time[ident] = 10
    /\ matched
    /\ nt = NTFalse

\* a | b with the children's own answers n1, n2
OrAsked == Called /\ when.kind = "or"
OrChild1 == next_time(when.spec1, ident, this_time)
OrChild2 == next_time(when.spec2, ident, this_time)
At5OrAt10 == OrSpec(at("step", 5), at("step", 10))

\* C14: (a | b).next is n1 OR n2 when both are boolean, the other one when
\* exactly one is False, True when either is True, and min(n1, n2) otherwise;
\* at('step',5) | at('step',10) gives 5 from step 0, 10 from steps 5 and 6
\* and False from step 10.
C14_OrNext ==
    /\ OrAsked =>
        LET n1 == OrChild1
            n2 == OrChild2
        IN  nt = IF ~n1.isnum /\ ~n2.isnum THEN NTBool(n1.b \/ n2.b)
                 ELSE IF n1 = NTFalse /\ n2 # NTFalse THEN n2
                 ELSE IF n2 = NTFalse /\ n1 # NTFalse THEN n1
                 ELSE IF n1 = NTTrue \/ n2 = NTTrue THEN NTTrue
                 ELSE IF n1.n <= n2.n THEN n1 ELSE n2
    /\ (OrAsked /\ when = At5OrAt10 /\ ident = "step") =>
        /\ this_time.step = 0 => nt = NTNum(5)
        /\ this_time.step \in {5, 6} => nt = NTNum(10)
        /\ this_time.step = 10 => nt = NTFalse

C14_Witness ==
    /\ OrAsked
    /\ when = At5OrAt10
    /\ ident = "step"
    /\ this_time.step = 5
    /\ nt = NTNum(10)


\* the clock moved onto the raw next occurrence
OnRawNext == [this_time EXCEPT ![ident] = nt.n]

\* C15: with a tolerance tol > 0 configured, When.next skips an occurrence
\* closer than tol to the current value and returns the one that follows
\* it; a raw value at least tol away, or asked without a tolerance, is
\* returned as it is, and a boolean raw result is never altered.
C15_ToleranceSkipsOne ==
    Called =>
        /\ ~nt.isnum => nt_tols = nt
        /\ (nt.isnum /\ (~tols.some \/ tols.v <= 0)) => nt_tols = nt
        /\ (nt.isnum /\ tols.some /\ tols.v > 0) =>
            nt_tols = IF Abs(nt.n - this_time[ident]) < tols.v
                      THEN next_time(when, ident, OnRawNext)
                      ELSE nt

TimeGridsExpected ==
    <<[this |-> 0, next |-> NTNum(30)], [this |-> 30, next |-> NTNum(60)],
      [this |-> 60, next |-> NTNum(90)], [this |-> 90, next |-> NTNum(100)],
      [this |-> 100, next |-> NTNum(120)], [this |-> 120, next |-> NTNum(150)],
      [this |-> 150, next |-> NTNum(180)], [this |-> 180, next |-> NTNum(200)],
      [this |-> 200, next |-> NTNum(210)], [this |-> 210, next |-> NTNum(240)]>>

TimeGridsRun ==
    /\ Called
    /\ when = TimeGrids
    /\ ident = "time"
    /\ tols = Some(1)
    /\ Len(results) = 1
    /\ results_tols[1].this = 0

\* C16: iterating time := next('time', clock, tolerance) from time 0 on
\* every('time',100) | every('time',30) yields 0->30->60->90->100->120->150
\* ->180->200->210->240, the union of the two grids in increasing order.
C16_TimeGridsTrace ==
    TimeGridsRun =>
        \A i \in 1..Len(results_tols) :
            i <= Len(TimeGridsExpected) => results_tols[i] = TimeGridsExpected[i]

C16_Witness == TimeGridsRun /\ results_tols = TimeGridsExpected



\* the raw next value is a number within the tolerance of the current value
NudgeApplies ==
    /\ Called
    /\ tols.some
    /\ tols.v > 0
    /\ nt.isnum
    /\ Abs(nt.n - this_time[ident]) < tols.v

\* the clock with the identifier advanced from its current value by tol
NudgedFromCurrent == [this_time EXCEPT ![ident] = @ + tols.v]

\* C32 as stated: when the tolerance nudge applies (raw next n within tol
\* of the current value t), When.next_time returns the raw next computed on
\* a clock whose identifier is advanced from its current value by the
\* tolerance, next_time at t + tol, for every predicate, an Or whose other
\* child has an occurrence between t + tol and n + tol included.
C32_NudgeFromCurrent ==
    NudgeApplies => nt_tols = next_time(when, ident, NudgedFromCurrent)

\* the pairs [this, next] of a test loop whose next is a number
Numeric(loop) == {i \in 1..Len(loop) : loop[i].next.isnum}

\* C36: for every predicate tree, identifier and clock drawn, a numeric
\* result of next_time, raw or with tolerances, is strictly greater than
\* the current value of the identifier, and so is every numeric result of
\* the loops that iterate this = next_time(this), without and with a
\* tolerance: the values they pass through strictly increase.
C36_NextStrictlyLater ==
    /\ (Called /\ nt.isnum) => nt.n > this_time[ident]
    /\ (Called /\ nt_tols.isnum) => nt_tols.n > this_time[ident]
    /\ \A i \in Numeric(results) : results[i].next.n > results[i].this
    /\ \A i \in Numeric(results_tols) :
           results_tols[i].next.n > results_tols[i].this

\* a loop run with a tolerance over an Or with an And child went through
\* three numeric results, the first of them after a nudge
C36_Witness ==
    /\ when.kind = "or"
    /\ when.spec1.kind = "and"
    /\ tols.some
    /\ Len(results_tols) >= 3
    /\ Numeric(results_tols) = 1..Len(results_tols)
    /\ LET start == [this_time EXCEPT ![ident] = results_tols[1].this]
           raw == next_time(when, ident, start)
       IN  raw.isnum /\ raw.n - start[ident] < tols.v
                     /\ results_tols[1].next.n > raw.n

----------------------------------------------------------------------------
(* SpecEvery: the factory every(...) applied to arguments drawn from       *)
(* bounded sets.                                                           *)

WhenIdle ==
    /\ when = never
    /\ this_time = SimulationClock
    /\ trial_clock = SimulationClock
    /\ ident = "step"
    /\ nt = NTFalse
    /\ matched = FALSE
    /\ results = <<>>
    /\ wpc = "idle"
    /\ TolsIdle

SchedIdle ==
    /\ save = List(<<>>)
    /\ do = List(<<>>)
    /\ thing_when_tuples = <<>>
    /\ error = NoError
    /\ pc = "idle"

EveryArgs ==
    {ArgStr("step"), ArgStr("time"), ArgNum(-1), ArgNum(0), ArgNum(2),
     ArgNum(10), ArgNone}

EveryCalls ==
    [arg1 : EveryArgs, arg2 : EveryArgs, first : {0, 5, 10},
     last : {None, Some(5), Some(10), Some(20)}]

EveryInit ==
    /\ every_call \in EveryCalls
    /\ every_ret = NotCalled
    /\ WhenIdle
    /\ SchedIdle
    /\ LoopIdle
    /\ ThrottlerIdle

\* every(arg1, arg2, first=first, last=last)
CallEvery ==
    /\ every_ret = NotCalled
    /\ every_ret' = every(every_call.arg1, every_call.arg2,
                          every_call.first, every_call.last)
    /\ UNCHANGED <<every_call, whenVars, schedVars, loopVars, throttleVars>>

EveryNext == CallEvery

SpecEvery == EveryInit /\ [][EveryNext]_vars

\* a number was passed that is not positive
NonPositiveNumber ==
    \/ every_call.arg1.kind = "num" /\ every_call.arg1.v <= 0
    \/ every_call.arg2.kind = "num" /\ every_call.arg2.v <= 0

LastNotAfterFirst ==
    every_call.last.some /\ every_call.last.v <= every_call.first

NoStringIdentifier ==
    every_call.arg1.kind # "str" /\ every_call.arg2.kind # "str"

\* C13: every(...) raises a ValueError for delta <= 0, for last <= first and
\* when no string identifier is given; every Every predicate that it
\* returns has delta > 0, if set, and last > first, if set.
C13_EveryValidation ==
    every_ret # NotCalled =>
        /\ (NonPositiveNumber \/ LastNotAfterFirst \/ NoStringIdentifier)
              => (every_ret.kind = "raised" /\ every_ret.type = "ValueError")
        /\ every_ret.kind = "returned" =>
              /\ every_ret.spec.kind = "every"
              /\ every_ret.spec.has_delta => every_ret.spec.delta > 0
              /\ every_ret.spec.has_last
                    => every_ret.spec.last > every_ret.spec.first

C13_Witness ==
    /\ every_call.arg1 = ArgStr("step")
    /\ every_call.arg2 = ArgNum(10)
    /\ every_call.first = 10
    /\ every_call.last = Some(10)
    /\ every_ret = BadUsage("last")

----------------------------------------------------------------------------
(* SpecThrottler: calls of Throttler.is_allowed while the monotonic clock  *)
(* of the machine advances.                                                *)

\* largest value of time.monotonic() followed
MaxNow == 8

\* the values of report_delay
Delays == {0, 2, 5}

ThrottlerInit ==
    /\ last_called = EmptyDict
    /\ now \in 0..MaxNow
    /\ allowed = FALSE
    /\ last_call = NoThrottlerCall
    /\ isolated = [k \in Keys |-> EmptyDict]
    /\ WhenIdle
    /\ EveryIdle
    /\ SchedIdle
    /\ LoopIdle

\* the monotonic clock moves on between two calls
TimePasses ==
    /\ now < MaxNow
    /\ now' \in (now + 1)..MaxNow
    /\ UNCHANGED <<last_called, allowed, last_call, isolated>>
    /\ UNCHANGED <<whenVars, everyVars, schedVars, loopVars>>

\* throttler.is_allowed(key, report_delay); the Throttler that sees only the
\* calls for this key gets the same call
IsAllowed ==
    /\ \E key \in Keys, report_delay \in Delays :
        LET call == is_allowed(last_called, key, report_delay, now)
            alone == is_allowed(isolated[key], key, report_delay, now)
        IN  /\ allowed' = call.ret
            /\ last_called' = call.last_called
            /\ isolated' = [isolated EXCEPT ![key] = alone.last_called]
            /\ last_call' = [key |-> key, report_delay |-> report_delay,
                             now |-> now, before |-> last_called,
                             alone |-> alone.ret]
    /\ UNCHANGED now
    /\ UNCHANGED <<whenVars, everyVars, schedVars, loopVars>>

ThrottlerNext == TimePasses \/ IsAllowed

SpecThrottler == ThrottlerInit /\ [][ThrottlerNext]_vars

\* a call of is_allowed was made
ThrottlerCalled == last_call.key \in Keys

\* last_called[key] as the last call found it
Before == last_call.before[last_call.key]

\* C18: the very first call for a key returns True, whatever the monotonic
\* time and the delay are, and records the time as last_called[key].
C18_FirstCallAllowed ==
    (ThrottlerCalled /\ ~Before.some) =>
        /\ allowed
        /\ last_called[last_call.key] = Some(last_call.now)

\* C19: after a call for a key was allowed at t0, a later call for that key
\* with delay d is denied while now - t0 < d and leaves last_called[key] at
\* t0, and is allowed as soon as now - t0 >= d, the expiry instant included,
\* setting last_called[key] to now; two allowed calls for one key are at
\* least d apart.
C19_ThrottledUntilExpiry ==
    (ThrottlerCalled /\ Before.some) =>
        /\ allowed <=> (last_call.now - Before.v >= last_call.report_delay)
        /\ ~allowed => last_called[last_call.key] = Before
        /\ allowed => last_called[last_call.key] = Some(last_call.now)

C19_Witness ==
    /\ ThrottlerCalled
    /\ Before.some
    /\ last_call.report_delay = 5
    /\ last_call.now - Before.v = 5
    /\ allowed
    /\ last_called[last_call.key] = Some(last_call.now)

\* C20: keys are independent: a call for one key leaves last_called of the
\* other keys alone, and every call is answered as by a Throttler that has
\* seen only the calls for that key.
C20_KeysIndependent ==
    ThrottlerCalled =>
        /\ \A k \in Keys \ {last_call.key} :
               last_called[k] = last_call.before[k]
        /\ allowed = last_call.alone
        /\ \A k \in Keys : last_called[k] = isolated[k][k]

C20_Witness ==
    /\ ThrottlerCalled
    /\ last_call.key = "key_A"
    /\ ~allowed
    /\ last_called["key_A"].some
    /\ last_called["key_B"].some
    /\ last_called["key_B"].v > last_called["key_A"].v

----------------------------------------------------------------------------
(* SpecSched: _append_x_list and _join_save_and_do_lists applied to save   *)
(* and do lists drawn from bounded sets.                                   *)

\* longest 'save' list and longest 'do' list drawn
MaxSaveLen == 2
MaxDoLen == 1

AtStageEnd == at_flag("stage_end", TRUE)
AtConvergence == at_flag("convergence", TRUE)
EveryStageStep2 == EverySpec("stage_step", TRUE, 2, 0, FALSE, 0)

SchedItems ==
    {NotIterable,
     Tuple(<<>>),
     Tuple(<<Str(S_averages), Callable("user_fn"), WhenObject(AtStageEnd)>>),
     Tuple(<<Str(S_exit), WhenObject(EveryStageStep2)>>),
     Tuple(<<Str(S_Next__Stage), WhenObject(AtConvergence)>>),
     Tuple(<<Str(S_bogus), WhenObject(AtStageEnd)>>),
     Tuple(<<OtherObject, WhenObject(AtStageEnd)>>),
     Tuple(<<Callable("hysteresis_exit"), WhenObject(AtStageEnd)>>),
     Tuple(<<Str(S_fields), WhenObject(EveryStageStep2)>>)}

ListsUpTo(n) ==
    {NotAList} \cup
        UNION {{List(items) : items \in [1..k -> SchedItems]} : k \in 0..n}

SchedInit ==
    /\ save \in ListsUpTo(MaxSaveLen)
    /\ do \in ListsUpTo(MaxDoLen)
    /\ thing_when_tuples = <<>>
    /\ error = NoError
    /\ pc = "start"
    /\ LoopIdle
    /\ when = never
    /\ this_time = SimulationClock
    /\ trial_clock = SimulationClock
    /\ ident = "step"
    /\ nt = NTFalse
    /\ matched = FALSE
    /\ results = <<>>
    /\ wpc = "idle"
    /\ TolsIdle
    /\ EveryIdle
    /\ ThrottlerIdle

\* _append_x_list([], save, prefix, action_abbreviations)
AppendXList ==
    /\ pc = "start"
    /\ \E prefix \in {S_do, S_save} :
        LET done == _append_x_list(<<>>, save, prefix, action_abbreviations)
        IN  /\ thing_when_tuples' = done.target
            /\ error' = done.error
            /\ pc' = IF prefix = S_do THEN "appended_do" ELSE "appended_save"
    /\ UNCHANGED <<save, do, whenVars, everyVars, throttleVars, loopVars>>

\* _join_save_and_do_lists(save, do, action_abbreviations)
JoinLists ==
    /\ pc = "start"
    /\ LET done == _join_save_and_do_lists(save, do, action_abbreviations)
       IN  /\ thing_when_tuples' = done.target
           /\ error' = done.error
    /\ pc' = "joined"
    /\ UNCHANGED <<save, do, whenVars, everyVars, throttleVars, loopVars>>

SchedNext == AppendXList \/ JoinLists

SpecSched == SchedInit /\ [][SchedNext]_vars


----------------------------------------------------------------------------
(* Claims on the schedule builder, checked under SpecSched *)

\* number of (thing, when) pairs the first k entries of a list stand for
RECURSIVE PairCount(_, _)
PairCount(list, k) ==
    IF k = 0 THEN 0
    ELSE PairCount(list, k - 1)
            + (IF Len(list.items[k].elems) = 0 THEN 0
               ELSE Len(list.items[k].elems) - 1)

\* the schedule entry that thing j of entry m of a list stands for
EntryOf(list, prefix, m, j) ==
    LET elems == list.items[m].elems
    IN  [what |-> Resolve(elems[j], prefix, action_abbreviations).fn,
         when |-> elems[Len(elems)].spec]

\* the entries of a list sit in target from position offset + 1 on, in input
\* order, the things of one tuple next to each other with the tuple's when
SitsAt(target, list, prefix, offset) ==
    \A m \in 1..Len(list.items) :
        \A j \in 1..(Len(list.items[m].elems) - 1) :
            /\ offset + PairCount(list, m - 1) + j <= Len(target)
            /\ target[offset + PairCount(list, m - 1) + j]
                   = EntryOf(list, prefix, m, j)

JoinedOk == pc = "joined" /\ error = NoError

\* C4: in the merged schedule every entry of the 'do' list precedes every
\* entry of the 'save' list; within each group the entries keep their input
\* order, and a tuple (thing_1, ..., thing_n, when) becomes n consecutive
\* entries with the same when.
C4_DoBeforeSave ==
    JoinedOk =>
        /\ Len(thing_when_tuples)
               = PairCount(do, Len(do.items)) + PairCount(save, Len(save.items))
        /\ SitsAt(thing_when_tuples, do, S_do, 0)
        /\ SitsAt(thing_when_tuples, save, S_save, PairCount(do, Len(do.items)))

C4_Witness ==
    /\ JoinedOk
    /\ Len(do.items) = 1
    /\ Len(save.items) = 2
    /\ Len(thing_when_tuples) = 4
    /\ thing_when_tuples[1].what = "hysteresis_exit"
    /\ thing_when_tuples[2].what = "save_averages"
    /\ thing_when_tuples[3].what = "user_fn"
    /\ thing_when_tuples[4].what = "save_fields"

Appended == pc \in {"appended_do", "appended_save"}

PrefixUsed == IF pc = "appended_do" THEN S_do ELSE S_save

\* the list and each of its entries can be iterated
WellFormed(list) ==
    list.iterable /\ \A m \in 1..Len(list.items) : list.items[m].iterable

\* a thing that is no callable and no tag of the registry, with or without
\* the prefix
Unknown(thing, prefix) ==
    /\ thing.kind # "callable"
    /\ thing.kind = "str" =>
        /\ _string_normalise(prefix \o <<" ">> \o thing.chars)
               \notin DOMAIN action_abbreviations
        /\ _string_normalise(thing.chars) \notin DOMAIN action_abbreviations

UnknownThings(list, prefix) ==
    {list.items[m].elems[j] :
        <<m, j>> \in {p \in (1..Len(list.items)) \X (1..3) :
                        /\ p[2] < Len(list.items[p[1]].elems)
                        /\ Unknown(list.items[p[1]].elems[p[2]], prefix)}}

\* C6: an unknown string tag, or a thing that is neither callable nor
\* string, makes _append_x_list raise the ValueError that names the thing
\* and lists the available tags.
C6_UnknownThingRaises ==
    (Appended /\ WellFormed(save)) =>
        IF UnknownThings(save, PrefixUsed) # {}
        THEN /\ error.type = "ValueError"
             /\ error.kind = "unknown_thing"
             /\ error.prefix = PrefixUsed
             /\ error.thing \in UnknownThings(save, PrefixUsed)
             /\ error.available = DOMAIN action_abbreviations
        ELSE error = NoError

C6_Witness ==
    /\ pc = "appended_save"
    /\ WellFormed(save)
    /\ error.kind = "unknown_thing"
    /\ error.thing = Str(S_bogus)
    /\ S_save \o <<"_">> \o S_averages \in error.available

\* the list, or one of its entries, cannot be iterated
HasNotIterable(list) == ~WellFormed(list)

HasEmptyTuple(list) ==
    list.iterable /\ \E m \in 1..Len(list.items) :
        list.items[m].iterable /\ list.items[m].elems = <<>>

\* a list all of whose things resolve, so that only its shape can be wrong
OnlyShape(list) ==
    ~list.iterable \/ \A prefix \in {S_do, S_save} :
        UnknownThings(list, prefix) = {}

\* C7 as stated: every malformed entry raises 'Bad syntax', be it a list or
\* an entry that cannot be iterated or an empty tuple.
C7_MalformedRaisesBadSyntax ==
    (Appended /\ OnlyShape(save)
        /\ (HasNotIterable(save) \/ HasEmptyTuple(save))) =>
        error.kind = "bad_syntax"

\* C7 as amended: a list or an entry that cannot be iterated raises the
\* 'Bad syntax' ValueError; an empty tuple raises nothing, it is skipped and
\* adds no schedule entry.
C7_NotIterableRaisesBadSyntax ==
    (Appended /\ OnlyShape(save)) =>
        IF HasNotIterable(save)
        THEN /\ error.type = "ValueError"
             /\ error.kind = "bad_syntax"
             /\ error.prefix = PrefixUsed
        ELSE /\ error = NoError
             /\ Len(thing_when_tuples) = PairCount(save, Len(save.items))

C7_Witness ==
    /\ pc = "appended_save"
    /\ save = List(<<Tuple(<<>>), NotIterable>>)
    /\ error.kind = "bad_syntax"


\* 'save  fields', 'Save_Fields' and a tag with a mixed run of separators
S_save__fields ==
    <<"s", "a", "v", "e", " ", " ", "f", "i", "e", "l", "d", "s">>
S_Save_Fields ==
    <<"S", "a", "v", "e", "_", "F", "i", "e", "l", "d", "s">>
S_next_mixed_stage ==
    <<"n", "e", "x", "t", " ", "\t", "_", "s", "t", "a", "g", "e">>

\* the action the registry holds for a tag: '<prefix>_<tag>' first, the tag
\* alone only when the prefixed key is absent; a callable stands for itself
ExpectedAction(thing, prefix) ==
    IF thing.kind = "callable" THEN thing.fn
    ELSE LET tag == _string_normalise(thing.chars)
             key == prefix \o <<"_">> \o tag
         IN  IF key \in DOMAIN action_abbreviations
             THEN action_abbreviations[key]
             ELSE action_abbreviations[tag]

----------------------------------------------------------------------------
(* Spec: one call of simulation_hysteresis, from its entry to its return   *)
(* or to the exception it raises.                                          *)

\* largest global step count the integrator is followed to
MaxClockStep == 6
\* largest number of fields in H_ext_list
MaxFields == 2

AtStep3 == at("step", 3)
AtStageStep2 == at("stage_step", 2)
AtTime3 == at("time", 3)
\* every('stage_step', 2) & every('step', 3)
EveryStageStep2AndEveryStep3 == AndSpec(EveryStageStep2, EveryStep3)
\* at('stage_end') | every('step', 3)
AtStageEndOrEveryStep3 == OrSpec(AtStageEnd, EveryStep3)

SaveAveragesAtStageEnd ==
    List(<<Tuple(<<Str(S_averages), WhenObject(AtStageEnd)>>)>>)

HysteresisArgs ==
    {\* the default save and do
     [save |-> List(<<Tuple(<<Str(S_averages), Str(S_fields),
                              WhenObject(AtStageEnd)>>)>>),
      do |-> List(<<>>)],
     \* exit at step 3, ahead of a save at the end of the stage
     [save |-> SaveAveragesAtStageEnd,
      do |-> List(<<Tuple(<<Str(S_exit), WhenObject(AtStep3)>>)>>)],
     \* next stage at stage step 2, periodic save of the fields
     [save |-> List(<<Tuple(<<Str(S_averages), WhenObject(AtStageEnd)>>),
                      Tuple(<<Str(S_fields), WhenObject(EveryStageStep2)>>)>>),
      do |-> List(<<Tuple(<<Str(S_Next__Stage), WhenObject(AtStageStep2)>>)>>)],
     \* exit ahead of two more do actions
     [save |-> List(<<Tuple(<<>>)>>),
      do |-> List(<<Tuple(<<Str(S_exit), Callable("user_fn"),
                            Str(S_next_stage), WhenObject(AtStep3)>>)>>)],
     \* the same action twice in one list
     [save |-> List(<<Tuple(<<Str(S_averages), WhenObject(AtStageEnd)>>),
                      Tuple(<<Str(S_fields), WhenObject(AtStageEnd)>>),
                      Tuple(<<Str(S_averages), WhenObject(AtConvergence)>>)>>),
      do |-> List(<<>>)],
     \* the same action in both lists
     [save |-> List(<<Tuple(<<Callable("hysteresis_exit"),
                              WhenObject(AtStageEnd)>>)>>),
      do |-> List(<<Tuple(<<Str(S_exit), WhenObject(AtStep3)>>)>>)],
     \* the same action twice in one tuple
     [save |-> List(<<Tuple(<<Str(S_fields), Str(S_fields),
                              WhenObject(AtStageEnd)>>)>>),
      do |-> List(<<>>)],
     \* a save at the end of the stage or every third step
     [save |-> List(<<Tuple(<<Str(S_averages),
                              WhenObject(AtStageEndOrEveryStep3)>>)>>),
      do |-> List(<<>>)],
     \* a save when the stage step is even and the step a multiple of three
     [save |-> List(<<Tuple(<<Str(S_fields),
                              WhenObject(EveryStageStep2AndEveryStep3)>>)>>),
      do |-> List(<<>>)],
     \* a save at a point in time, next stage at stage step 2
     [save |-> List(<<Tuple(<<Str(S_fields), WhenObject(AtTime3)>>)>>),
      do |-> List(<<Tuple(<<Str(S_next_stage),
                            WhenObject(AtStageStep2)>>)>>)],
     \* a user function at the end of the stage, listed ahead of the action
     \* that requests the next stage at stage step 2
     [save |-> List(<<>>),
      do |-> List(<<Tuple(<<Callable("user_fn"), WhenObject(AtStageEnd)>>),
                    Tuple(<<Str(S_next_stage),
                            WhenObject(AtStageStep2)>>)>>)],
     \* nothing to save, nothing to do
     [save |-> List(<<>>), do |-> List(<<>>)],
     \* an unknown tag, and a list that cannot be iterated
     [save |-> List(<<Tuple(<<Str(S_bogus), WhenObject(AtStageEnd)>>)>>),
      do |-> List(<<>>)],
     [save |-> NotAList, do |-> List(<<>>)]}

FieldLists == {[i \in 1..n |-> i] : n \in 1..MaxFields}

\* time.monotonic() and the module's _progress_throttler when hysteresis is
\* entered: in a process that has not run a loop yet, and in a process in
\* which another simulation has just written its progress file
ProcessStates ==
    {[now |-> 0, last_called |-> NoProgressYet],
     [now |-> 3, last_called |-> [k \in {ProgressKey} |-> Some(3)]]}

NoProgressCall ==
    [key |-> "", report_delay |-> 0, now |-> 0, before |-> NoProgressYet,
     alone |-> FALSE]

Init ==
    /\ \E args \in HysteresisArgs : save = args.save /\ do = args.do
    /\ H_ext_list \in FieldLists
    /\ \E s \in 1..(MaxFields + 1), e \in BOOLEAN :
        clock = [SimulationClock EXCEPT !.stage = s, !.exit_hysteresis = e]
    /\ clock_class \in ClockClasses
    /\ thing_when_tuples = <<>>
    /\ error = NoError
    /\ pc = "enter"
    /\ h_idx = 0
    /\ stage = None
    /\ next_save_time = <<>>
    /\ entry_idx = 0
    /\ fired = <<>>
    /\ stages_run = <<>>
    /\ deltas = NoDeltas
    /\ when = never
    /\ this_time = SimulationClock
    /\ trial_clock = SimulationClock
    /\ ident = "step"
    /\ nt = NTFalse
    /\ matched = FALSE
    /\ results = <<>>
    /\ wpc = "idle"
    /\ TolsIdle
    /\ EveryIdle
    /\ \E start \in ProcessStates :
        /\ now = start.now
        /\ last_called = start.last_called
    /\ allowed = FALSE
    /\ last_call = NoProgressCall
    /\ isolated = [k \in {ProgressKey} |-> NoProgressYet]

\* faulty variant: the exit flag is reset before the schedule is built
EnterClockResetFirst(clk, err) == [clk EXCEPT !.exit_hysteresis = FALSE]

\* line 302 is reached only when lines 252-273 raised nothing
EnterClock(clk, err) ==
    IF err # NoError THEN clk ELSE [clk EXCEPT !.exit_hysteresis = FALSE]

\* lines 252-302: build the schedule, reject duplicates, reset the exit flag
Enter ==
    /\ pc = "enter"
    /\ LET joined == _join_save_and_do_lists(save, do, action_abbreviations)
           dup == FirstDuplicate(joined.target)
           first == SliceStart(clock.stage, Len(H_ext_list)) + 1
       IN  IF joined.error # NoError
           THEN /\ error' = joined.error
                /\ pc' = "raised"
                /\ clock' = EnterClock(clock, joined.error)
                /\ UNCHANGED <<thing_when_tuples, h_idx, stage,
                               next_save_time>>
           ELSE IF dup # ""
           THEN /\ error' = DuplicateError(dup)
                /\ pc' = "raised"
                /\ thing_when_tuples' = joined.target
                /\ clock' = EnterClock(clock, DuplicateError(dup))
                /\ UNCHANGED <<h_idx, stage, next_save_time>>
           ELSE /\ thing_when_tuples' = joined.target
                /\ next_save_time' =
                       [key \in {joined.target[i].what :
                                    i \in 1..Len(joined.target)} |-> NoDeltas]
                /\ stage' = Some(clock.stage)
                /\ clock' = EnterClock(clock, NoError)
                /\ h_idx' = first
                /\ pc' = IF first <= Len(H_ext_list)
                         THEN "stage_start" ELSE "finished"
                /\ UNCHANGED error
    /\ UNCHANGED <<save, do, H_ext_list, clock_class, entry_idx, fired,
                   stages_run, deltas, whenVars, everyVars, throttleVars>>

\* lines 304-317: the head of the for loop over the fields; the first
\* my_next_time that raises ends the call, the entries before it have their
\* cache refreshed
StageStart ==
    /\ pc = "stage_start"
    /\ LET clk == [inc_stage(clock, stage) EXCEPT !.stage_end = FALSE]
           n == Len(thing_when_tuples)
           raises == {i \in 1..n :
                         NextTimeTripleRaises(thing_when_tuples[i].when,
                                              clock_class) # NoError}
           stop == IF raises = {} THEN n + 1
                   ELSE CHOOSE i \in raises : \A j \in raises : i <= j
       IN  /\ clock' = clk
           /\ next_save_time' =
                  [key \in DOMAIN next_save_time |->
                      LET i == CHOOSE i \in 1..n :
                                   thing_when_tuples[i].what = key
                      IN  IF i < stop
                          THEN _next_time(thing_when_tuples[i].when, clk)
                          ELSE next_save_time[key]]
           /\ IF stop <= n
              THEN /\ error' = NextTimeTripleRaises(
                                   thing_when_tuples[stop].when, clock_class)
                   /\ pc' = "raised"
              ELSE /\ pc' = "tick"
                   /\ UNCHANGED error
    /\ stage' = None
    /\ stages_run' = Append(stages_run, H_ext_list[h_idx])
    /\ h_idx' = h_idx + 1
    /\ UNCHANGED <<save, do, thing_when_tuples, H_ext_list, clock_class,
                   entry_idx, fired, deltas, whenVars, everyVars,
                   throttleVars>>

\* lines 321-327: the head of the while loop
TickBegin ==
    /\ pc = "tick"
    /\ LET clk == [clock EXCEPT !.stage_end = clock.convergence]
           raised == NextDeltasRaises(convergence_check, clock_class)
       IN  /\ clock' = clk
           /\ IF raised # NoError
              THEN /\ error' = raised
                   /\ pc' = "raised"
                   /\ UNCHANGED <<deltas, fired, entry_idx>>
              ELSE /\ deltas' = _next_deltas(convergence_check, clk, NoDeltas)
                   /\ fired' = <<>>
                   /\ entry_idx' = 1
                   /\ pc' = "pass"
                   /\ UNCHANGED error
    /\ UNCHANGED <<save, do, thing_when_tuples, H_ext_list, clock_class,
                   h_idx, stage, next_save_time, stages_run, whenVars,
                   everyVars, throttleVars>>

\* faulty variant: an entry is run only when its predicate matches
ShouldRunOnMatch(time_matches, nst, cached) == time_matches

\* line 336: if time_matches or nst != next_save_time[key]
ShouldRun(time_matches, nst, cached) == time_matches \/ nst # cached

\* lines 330-349: the body of the for loop over thing_when_tuples; a pass
\* is entered only with a clock whose reads succeed (TickBegin)
VisitEntry ==
    /\ pc = "pass"
    /\ entry_idx <= Len(thing_when_tuples)
    /\ \E what \in {thing_when_tuples[entry_idx].what} :
       \E when_ \in {thing_when_tuples[entry_idx].when} :
       \E time_matches \in {match_time(when_, clock)} :
       \E nst \in {_next_time(when_, clock)} :
       \E run \in {ShouldRun(time_matches, nst, next_save_time[what])} :
       \E clk \in {IF run THEN Invoke(what, clock) ELSE clock} :
           /\ clock' = clk
           /\ fired' = IF run THEN Append(fired, what) ELSE fired
           /\ next_save_time' = [next_save_time EXCEPT ![what] = nst]
           /\ deltas' = _next_deltas(when_, clk, deltas)
    /\ entry_idx' = entry_idx + 1
    /\ UNCHANGED <<save, do, thing_when_tuples, error, pc, H_ext_list, clock_class, h_idx,
                   stage, stages_run, whenVars, everyVars, throttleVars>>

\* lines 351-374: after the for loop
TickEnd ==
    /\ pc = "pass"
    /\ entry_idx > Len(thing_when_tuples)
    /\ pc' = CASE AfterPass(clock) = "return" -> "returned"
               [] AfterPass(clock) = "break" ->
                     IF h_idx <= Len(H_ext_list)
                     THEN "stage_start" ELSE "finished"
               [] OTHER -> "advance"
    /\ UNCHANGED <<save, do, thing_when_tuples, error, whenVars, everyVars, throttleVars, loopVars>>

\* lines 379-388: the integrator advances the clock by k steps and dt units
\* of time within (target_time, max_it) and reports convergence, taking one
\* unit of monotonic time per step; a reached time beyond 99% of
\* max_time_reached raises, else _update_progress_file asks the module's
\* Throttler.  'isolated' follows a Throttler that this call of hysteresis
\* would own.
Advance ==
    /\ pc = "advance"
    /\ \E k \in 1..MaxClockStep, conv \in BOOLEAN,
          dt \in {1, TargetTime(clock, deltas) - clock.stage_time,
                  NearlyRunaway - clock.stage_time} :
        /\ MaxIt(deltas) = -1 \/ k <= MaxIt(deltas)
        /\ clock.step + k <= MaxClockStep
        /\ dt >= 1
        /\ clock.stage_time + dt <= TargetTime(clock, deltas)
        /\ clock' = [clock EXCEPT !.step = @ + k, !.stage_step = @ + k,
                                  !.time = @ + dt, !.stage_time = @ + dt,
                                  !.convergence = conv]
        /\ now' = now + k
        /\ IF AfterAdvance(clock.stage_time + dt) = "raise"
           THEN /\ pc' = "raised"
                /\ error' = RunawayError
                /\ UNCHANGED <<last_called, allowed, last_call, isolated>>
           ELSE LET call == _update_progress_file(
                                last_called, progress_message_minimum_delay,
                                now + k)
                    alone == _update_progress_file(
                                 isolated[ProgressKey],
                                 progress_message_minimum_delay, now + k)
                IN  /\ pc' = "tick"
                    /\ allowed' = call.ret
                    /\ last_called' = call.last_called
                    /\ isolated' =
                           [isolated EXCEPT ![ProgressKey] = alone.last_called]
                    /\ last_call' =
                           [key |-> ProgressKey,
                            report_delay |-> progress_message_minimum_delay,
                            now |-> now + k, before |-> last_called,
                            alone |-> alone.ret]
                    /\ UNCHANGED error
    /\ UNCHANGED <<save, do, thing_when_tuples, H_ext_list, clock_class, h_idx, stage,
                   next_save_time, entry_idx, fired, stages_run, deltas,
                   whenVars, everyVars>>

Next == Enter \/ StageStart \/ TickBegin \/ VisitEntry \/ TickEnd \/ Advance

Spec == Init /\ [][Next]_vars

\* the body of the for loop over the fields: once the schedule is built the
\* driver runs on, statement after statement, and a call of advance_time
\* that can return does return
StageLoop == StageStart \/ TickBegin \/ VisitEntry \/ TickEnd \/ Advance

FairSpec == Spec /\ WF_vars(StageLoop)


----------------------------------------------------------------------------
(* Claims on the driver loop, checked under Spec *)

Range(seq) == {seq[i] : i \in 1..Len(seq)}

\* C1 as stated: once an action fired in a pass has set the exit flag, no
\* action later in schedule order is fired in that same pass.
C1_NoActionAfterExit ==
    \A i \in 1..Len(fired) : fired[i] = "hysteresis_exit" => i = Len(fired)

\* position of the exit action in the schedule, 0 when it is not scheduled
ExitPosition ==
    IF \E i \in 1..Len(thing_when_tuples) :
           thing_when_tuples[i].what = "hysteresis_exit"
    THEN CHOOSE i \in 1..Len(thing_when_tuples) :
             thing_when_tuples[i].what = "hysteresis_exit"
    ELSE 0

\* C1 as amended: once an action fired in a pass has set the exit flag, the
\* pass over the schedule is completed, so that the entries later in
\* schedule order that are due are fired in that same pass, and the loop
\* then returns: the integrator is not advanced, no stage is ended or
\* started.
C1_ExitReturnsAfterPass ==
    /\ (clock.exit_hysteresis /\ pc \notin {"enter", "raised"}) =>
        /\ pc \in {"pass", "returned"}
        /\ "hysteresis_exit" \in Range(fired)
    /\ pc = "returned" =>
        /\ clock.exit_hysteresis
        /\ \A j \in 1..Len(thing_when_tuples) :
            (j > ExitPosition /\ match_time(thing_when_tuples[j].when, clock))
                => thing_when_tuples[j].what \in Range(fired)

C1_Witness ==
    /\ pc = "returned"
    /\ fired = <<"hysteresis_exit", "save_averages">>
    /\ clock.step = 3

\* two entries of the schedule resolve to the same action
HasDuplicate(tuples) ==
    \E i, j \in 1..Len(tuples) : i < j /\ tuples[i].what = tuples[j].what

\* C5: when the merged schedule holds two entries that resolve to the same
\* action, simulation_hysteresis raises a ValueError that names the action,
\* and no stage is started.
C5_DuplicateActionRaises ==
    pc # "enter" =>
        IF HasDuplicate(thing_when_tuples)
        THEN /\ pc = "raised"
             /\ error.type = "ValueError"
             /\ error.kind = "duplicate"
             /\ \E i, j \in 1..Len(thing_when_tuples) :
                    /\ i < j
                    /\ thing_when_tuples[i].what = error.key
                    /\ thing_when_tuples[j].what = error.key
             /\ stages_run = <<>>
             /\ clock.stage_step = 0 /\ clock.step = 0
        ELSE error.kind # "duplicate"

C5_Witness ==
    /\ pc = "raised"
    /\ error = DuplicateError("hysteresis_exit")
    /\ Len(do.items) = 1
    /\ Len(save.items) = 1
    /\ stages_run = <<>>

\* the exceptions that report a fault of the save and do arguments
ConfigurationErrors == {"unknown_thing", "bad_syntax", "duplicate"}

\* the save and do arguments hold a malformed tuple, an unknown tag or two
\* entries for one action
BadSchedule ==
    LET joined == _join_save_and_do_lists(save, do, action_abbreviations)
    IN  joined.error # NoError \/ HasDuplicate(joined.target)

\* C22: a malformed tuple, an unknown tag and a duplicate action are raised
\* by simulation_hysteresis before the loop starts: before the exit flag is
\* reset, before a stage is started, before an action is fired and before
\* the integrator is advanced, so that the clock is unchanged when the
\* error is raised.
C22_ConfigErrorsBeforeLoop ==
    /\ [](error.kind \in ConfigurationErrors =>
            /\ pc = "raised"
            /\ stages_run = <<>>
            /\ fired = <<>>
            /\ h_idx = 0
            /\ clock.step = 0
            /\ clock.time = 0)
    /\ [][(pc = "enter" /\ pc' # "enter") =>
            IF BadSchedule
            THEN /\ error'.kind \in ConfigurationErrors
                 /\ clock' = clock
            ELSE error' = NoError]_vars
    /\ [][error'.kind \in ConfigurationErrors => pc = "enter"]_vars

C22_Witness ==
    /\ pc = "raised"
    /\ error.kind = "unknown_thing"
    /\ error.thing = Str(S_bogus)
    /\ clock.exit_hysteresis
    /\ clock.stage = 2

\* C23: the clock the driver loop works on can be read by counter name, for
\* every name the predicates and the lookahead calculator read, so that
\* evaluating match_time / next_time and computing the deltas on the
\* simulation's clock never fails.
C23_ClockReadsNeverFail == error.kind # "clock_access"

\* the clock after the integrator made k steps that took dt units of time
Moved(clk, k, dt) ==
    [clk EXCEPT !.step = @ + k, !.stage_step = @ + k,
                !.time = @ + dt, !.stage_time = @ + dt]

\* k steps and dt units of time lie strictly inside the bound
\* (target_time, max_it) handed to advance_time: the integrator may go on
\* from there
InsideBound(k, dt) ==
    /\ MaxIt(deltas) = -1 \/ k < MaxIt(deltas)
    /\ clock.stage_time + dt < TargetTime(clock, deltas)

\* C24: in every tick the bound handed to the integrator (target_time,
\* max_it) does not let it advance past a counter value at which the
\* predicate of a registered action matches, whatever the shape of the
\* predicate: with at('stage_end') | every('step', N) the integrator is not
\* allowed to step past a multiple of N.
C24_NoOvershoot ==
    pc = "advance" =>
        \A i \in 1..Len(thing_when_tuples) :
            \A k \in 1..MaxClockStep, dt \in 1..MaxClockStep :
                InsideBound(k, dt) =>
                    ~match_time(thing_when_tuples[i].when,
                                Moved(clock, k, dt))

\* position of an action in the schedule
Position(what) ==
    CHOOSE i \in 1..Len(thing_when_tuples) : thing_when_tuples[i].what = what

\* a step that visits the entry at entry_idx
Visits == pc = "pass" /\ entry_idx' = entry_idx + 1

\* C25: in each tick every schedule entry is visited once, in schedule
\* order, and its action is invoked, at most once, iff its predicate matches
\* the current clock or its freshly computed next-fire value differs from
\* the value cached at the previous tick or at stage start; an entry that
\* neither matches nor changed is not invoked, and after the visit the cache
\* holds the fresh value.
C25_VisitEntry ==
    /\ [](pc = "pass" =>
            /\ entry_idx \in 1..(Len(thing_when_tuples) + 1)
            /\ \A j \in 1..Len(fired) :
                /\ Position(fired[j]) < entry_idx
                /\ \A l \in 1..(j - 1) :
                       Position(fired[l]) < Position(fired[j]))
    /\ [][Visits =>
            LET what == thing_when_tuples[entry_idx].what
                when_ == thing_when_tuples[entry_idx].when
                due == \/ match_time(when_, clock)
                       \/ _next_time(when_, clock) # next_save_time[what]
            IN  /\ entry_idx <= Len(thing_when_tuples)
                /\ fired' = IF due THEN Append(fired, what) ELSE fired
                /\ next_save_time' =
                       [next_save_time EXCEPT
                           ![what] = _next_time(when_, clock)]]_vars
    /\ [][(pc = "tick" /\ pc' = "pass") =>
            entry_idx' = 1 /\ fired' = <<>>]_vars
    /\ [][(pc = "pass" /\ pc' # "pass") =>
            entry_idx = Len(thing_when_tuples) + 1]_vars
    /\ [][next_save_time' # next_save_time =>
            pc \in {"enter", "stage_start"} \/ Visits]_vars

\* the entry was invoked because its next-fire value changed, not because
\* its predicate matched
C25_Witness ==
    /\ pc = "pass"
    /\ thing_when_tuples = <<[what |-> "save_fields",
                              when |-> EveryStageStep2AndEveryStep3]>>
    /\ entry_idx = 2
    /\ fired = <<"save_fields">>
    /\ ~match_time(EveryStageStep2AndEveryStep3, clock)
    /\ clock.step = 1

\* the schedule entries that come from the 'do' argument
DoEntries ==
    Range(_append_x_list(<<>>, do, S_do, action_abbreviations).target)

\* the schedule entries that come from the 'save' argument
SaveEntries ==
    Range(_append_x_list(<<>>, save, S_save, action_abbreviations).target)

\* a 'do' action that requests the next stage was fired in this pass
NextStageRequested ==
    \E e \in DoEntries :
        e.what = "hysteresis_next_stage" /\ e.what \in Range(fired)

\* all entries of the schedule were visited and the loop has not moved on
PassDone == pc = "pass" /\ entry_idx = Len(thing_when_tuples) + 1

\* C26: when a 'do' action that requests the next stage fires in a tick,
\* every 'save' action scheduled with at('stage_end') is fired in that same
\* tick, before the stage is left and before the integrator is advanced
\* again.
C26_SaveAtStageEndSameTick ==
    /\ (PassDone /\ NextStageRequested) =>
           /\ clock.stage_end
           /\ \A e \in SaveEntries :
                  e.when = AtStageEnd => e.what \in Range(fired)
    /\ pc = "advance" => ~NextStageRequested

C26_Witness ==
    /\ PassDone
    /\ fired = <<"hysteresis_next_stage", "save_averages", "save_fields">>
    /\ clock.stage_step = 2
    /\ ~clock.convergence

\* the call has returned without an exception
Ended == pc \in {"finished", "returned"}

\* C27 as stated: a hysteresis call entered with clock.stage = s runs one
\* stage for each element of H_ext_list[s-1:], in list order, and then
\* terminates normally.
C27_RunsWholeSlice == Ended => h_idx = Len(H_ext_list) + 1

\* C27 as amended: a hysteresis call entered with clock.stage = s starts its
\* stages at element s-1 of H_ext_list and runs them in list order, one
\* stage for each element; it terminates normally with the list exhausted
\* unless an exit request or an exception ends it before, and then the
\* stages run are the first elements of H_ext_list[s-1:].  Elements before
\* index s-1 are never applied, and when s-1 >= len(H_ext_list) no stage
\* is started and no action fires.
C27_PositionalStages ==
    /\ [][(pc = "enter" /\ pc' \notin {"enter", "raised"}) =>
            /\ h_idx' = IF clock.stage <= Len(H_ext_list)
                        THEN clock.stage ELSE Len(H_ext_list) + 1
            /\ stages_run' = <<>>
            /\ pc' = IF clock.stage - 1 >= Len(H_ext_list)
                     THEN "finished" ELSE "stage_start"]_vars
    /\ [][stages_run' # stages_run =>
            /\ pc = "stage_start"
            /\ stages_run' = Append(stages_run, H_ext_list[h_idx])
            /\ h_idx' = h_idx + 1]_vars
    /\ [][h_idx' # h_idx => pc = "enter" \/ stages_run' # stages_run]_vars
    /\ [](pc = "finished" =>
            /\ error = NoError
            /\ h_idx = Len(H_ext_list) + 1
            /\ stages_run = <<>> => (fired = <<>> /\ clock.step = 0))
    /\ [](pc = "stage_start" => h_idx <= Len(H_ext_list))

C27_Witness ==
    /\ pc = "finished"
    /\ H_ext_list = <<1, 2>>
    /\ stages_run = <<2>>
    /\ clock.stage = 2
    /\ "save_averages" \in Range(fired)

\* a step that starts a stage
StartsStage == stages_run' # stages_run

\* C28 as stated: at every StageStart, the first one of the call included,
\* the driver increments the stage counter by one.
C28_EveryStageStartIncrements ==
    [][StartsStage => clock'.stage = clock.stage + 1]_vars

\* C28 as amended: at every StageStart (once per processed field) the driver
\* resets stage_step and stage_time to zero and clears the stage-end flag,
\* all before any action of that stage is evaluated; the first StageStart
\* of a call leaves the stage counter at the value the call was entered
\* with and every later one increments it by one, so that after k >= 1
\* stages have been started the stage counter has grown by k - 1 and is
\* the position in H_ext_list of the field of the stage.
C28_StageStart ==
    /\ [][StartsStage =>
            /\ clock'.stage = IF stages_run = <<>> THEN clock.stage
                              ELSE clock.stage + 1
            /\ clock'.stage_step = 0
            /\ clock'.stage_time = 0
            /\ ~clock'.stage_end
            /\ fired' = fired]_vars
    /\ [][clock'.stage # clock.stage => StartsStage]_vars
    /\ [][fired' # fired => pc \in {"tick", "pass"}]_vars
    /\ [](stages_run # <<>> =>
            /\ clock.stage = stages_run[1] + Len(stages_run) - 1
            /\ H_ext_list[clock.stage] = stages_run[Len(stages_run)])

C28_Witness ==
    /\ pc = "tick"
    /\ stages_run = <<1, 2>>
    /\ clock.stage = 2
    /\ clock.stage_step = 0
    /\ clock.step = 2
    /\ clock.zero_stage_step = 2
    /\ ~clock.stage_end

\* the exit flag was set by an action of the running call
ExitRequested == clock.exit_hysteresis /\ pc \notin {"enter", "raised"}

\* C29: advance_time is not invoked in a tick in which the exit flag or the
\* stage-end flag is set after the actions were processed; once the exit
\* flag is set the driver returns with no further advance, no further stage
\* start and no further field applied (the return on exit is terminal), and
\* the exit check takes precedence over the stage-end check.
C29_ExitAndStageEnd ==
    /\ [](pc = "advance" => ~clock.exit_hysteresis /\ ~clock.stage_end)
    /\ [][(PassDone /\ pc' # "pass") =>
            pc' = IF clock.exit_hysteresis THEN "returned"
                  ELSE IF ~clock.stage_end THEN "advance"
                  ELSE IF h_idx <= Len(H_ext_list) THEN "stage_start"
                  ELSE "finished"]_vars
    /\ [][ExitRequested =>
            /\ pc = "pass"
            /\ pc' \in {"pass", "returned"}
            /\ stages_run' = stages_run
            /\ h_idx' = h_idx
            /\ clock'.step = clock.step
            /\ clock'.time = clock.time
            /\ clock'.stage = clock.stage
            /\ clock'.exit_hysteresis]_vars
    /\ [](pc = "returned" => clock.exit_hysteresis)

\* exit and stage end are both set, a field is left, and the call returned
C29_Witness ==
    /\ pc = "returned"
    /\ clock.exit_hysteresis
    /\ clock.stage_end
    /\ stages_run = <<1>>
    /\ H_ext_list = <<1, 2>>
    /\ h_idx = 2
    /\ fired = <<"hysteresis_exit", "user_fn", "hysteresis_next_stage">>

\* the counters of the three axes of the lookahead
AxisNames ==
    <<{"step", "stage_step"}, {"time", "stage_time"}, {"real_time"}>>

\* the convergence check and the predicates of the schedule
Predicates ==
    {convergence_check} \cup
        {thing_when_tuples[i].when : i \in 1..Len(thing_when_tuples)}

\* the distances from the clock to the numeric next values on one axis
AxisDeltas(axis) ==
    {When_next_time(p, name, clock, match_tolerances(name)).n - clock[name] :
        <<p, name>> \in
            {pn \in Predicates \X AxisNames[axis] :
                When_next_time(pn[1], pn[2], clock,
                               match_tolerances(pn[2])).isnum}}

\* C30: in each tick the lookahead triple (delta_step, delta_time,
\* delta_real_time) is, per axis, the minimum of the deltas that are not
\* None of the convergence check and of the predicate of every schedule
\* entry (step axis over 'step' and 'stage_step', time axis over 'time' and
\* 'stage_time'); an axis is None iff no predicate has a numeric next on
\* it, and every delta that is not None is strictly positive.
C30_LookaheadIsMinimum ==
    (PassDone \/ pc = "advance") =>
        \A axis \in 1..3 :
            IF AxisDeltas(axis) = {}
            THEN deltas[axis] = None
            ELSE /\ deltas[axis].some
                 /\ deltas[axis].v \in AxisDeltas(axis)
                 /\ \A d \in AxisDeltas(axis) : deltas[axis].v <= d /\ d > 0

C30_Witness ==
    /\ PassDone
    /\ Len(thing_when_tuples) = 2
    /\ thing_when_tuples[2].when = AtTime3
    /\ clock.step = 1
    /\ clock.time = 1
    /\ deltas = <<Some(1), Some(2), None>>

\* C31: after each integrator advance the driver raises the runaway
\* RuntimeError iff the reached time exceeds 99% of max_time_reached, a
\* reached time of exactly 99% not raising; the exception ends the call at
\* once, nothing is retried, and the progress file is not touched in that
\* tick (the Throttler is not even asked).
C31_RunawayRaises ==
    /\ [][pc = "advance" =>
            /\ pc' = "raised" <=>
                   100 * clock'.stage_time > 99 * max_time_reached
            /\ pc' = "raised" =>
                   /\ error' = RunawayError
                   /\ UNCHANGED <<last_called, last_call, allowed>>
            /\ pc' # "raised" =>
                   /\ pc' = "tick"
                   /\ error' = NoError
                   /\ last_call'.key = ProgressKey
                   /\ last_call'.now = now']_vars
    /\ [][pc # "raised"]_vars
    /\ [](error = RunawayError =>
            pc = "raised" /\ 100 * clock.stage_time > 99 * max_time_reached)

\* the advance before stopped at exactly 99% and was reported; this one
\* went beyond and raised
C31_Witness ==
    /\ pc = "raised"
    /\ error = RunawayError
    /\ clock.stage_time = max_time_reached
    /\ last_call.key = ProgressKey
    /\ allowed
    /\ last_call.now = 2
    /\ now = 3

\* C35 as stated: the throttling state of the progress report is owned by
\* the driver loop, so whether this call of hysteresis writes its progress
\* snapshot never depends on when another, independent run in the process
\* last wrote one: every tick is answered as by a Throttler that has seen
\* the ticks of this call only.
C35_ProgressOwnedByLoop ==
    last_call.key = ProgressKey =>
        /\ allowed = last_call.alone
        /\ last_called = isolated[ProgressKey]

\* positions in the schedule of the entries scheduled with at('stage_end')
StageEndEntries ==
    {i \in 1..Len(thing_when_tuples) : thing_when_tuples[i].when = AtStageEnd}

\* how often an action was fired in the pass of this tick
Times(what) == Cardinality({i \in 1..Len(fired) : fired[i] = what})

\* C38 as stated: in the tick that ends a stage by convergence or by a fired
\* next-stage action (the pass is followed by the break), every action
\* scheduled with at('stage_end') was fired exactly once, and in a tick that
\* is followed by an advance of the integrator none of them was fired.
C38_StageEndFiresInLastTick ==
    PassDone =>
        \A i \in StageEndEntries :
            /\ AfterPass(clock) = "break" =>
                   Times(thing_when_tuples[i].what) = 1
            /\ AfterPass(clock) = "advance" =>
                   Times(thing_when_tuples[i].what) = 0

----------------------------------------------------------------------------
(* Claims on the termination of the driver, checked under FairSpec *)

\* the call has raised
Raised == pc = "raised"

\* the pass of this tick runs with the stage-end flag set, from
\* is_converged() at the head of the tick or by an action, or with the exit
\* flag set
EndReported == pc = "pass" /\ (clock.stage_end \/ clock.exit_hysteresis)

\* the stage that was running is over
StageOver == pc \in {"stage_start", "finished", "returned", "raised"}

\* C39: if again and again convergence is reported or an action requests
\* the end of the stage or the exit (in every stage, eventually), every
\* advance of the integrator returns and nothing raises, the call of
\* simulation_hysteresis eventually returns; a tick that starts with the
\* simulation converged ends its stage, and so does every pass that ends
\* with the stage-end flag set; and every stage performs at least
\* one pass over the schedule before it ends: a stage start is followed by a
\* tick, and the loop over the fields moves on only from a completed pass.
C39_EventuallyReturns ==
    /\ ([]<>(Ended \/ Raised \/ EndReported) /\ []~Raised) => <>Ended
    /\ (pc = "tick" /\ clock.convergence) ~> StageOver
    /\ [][(PassDone /\ clock.stage_end /\ pc' # pc) => StageOver']_vars
    /\ [][pc = "stage_start" => pc' \in {"tick", "raised"}]_vars
    /\ [][(pc' # pc /\ pc' \in {"stage_start", "finished", "returned"}) =>
            (pc = "enter" \/ PassDone)]_vars

\* two stages were run, the second one ended by convergence after an
\* advance, and the call has returned
C39_Witness ==
    /\ pc = "finished"
    /\ Len(stages_run) = 2
    /\ clock.stage = 2
    /\ clock.stage_step > 0
    /\ clock.convergence
    /\ clock.stage_end
    /\ ~clock.exit_hysteresis

----------------------------------------------------------------------------
(* SpecClock: SimulationClock.inc_stage applied to clocks whose fields     *)
(* were assigned as tests/simulation/clock_test.py assigns them.           *)

ClockIdle ==
    /\ clock_class = "SimulationClock"
    /\ H_ext_list = <<>>
    /\ h_idx = 0
    /\ next_save_time = <<>>
    /\ entry_idx = 0
    /\ fired = <<>>
    /\ stages_run = <<>>
    /\ deltas = NoDeltas

\* the values the fields of a SimulationClock are set to
ClockValues ==
    [id : {-1, 0}, stage : 1..3, step : 0..MaxClockStep, time : {0, 3},
     stage_step : {0, 2}, stage_time : {0, 2}, real_time : {0, 1},
     stage_end : BOOLEAN, convergence : BOOLEAN, exit_hysteresis : BOOLEAN,
     zero_stage_time : {0}, zero_stage_step : {0}]

\* the argument of inc_stage: None or a stage number
StageArgs == {None} \cup {Some(n) : n \in 1..4}

ClockInit ==
    /\ clock = SimulationClock
    /\ stage = None
    /\ save = List(<<>>)
    /\ do = List(<<>>)
    /\ thing_when_tuples = <<>>
    /\ error = NoError
    /\ pc = "clock"
    /\ ClockIdle
    /\ WhenIdle
    /\ EveryIdle
    /\ ThrottlerIdle

\* self.clock.step = 50, self.clock.stage = 3, ...
SetFields ==
    /\ pc = "clock"
    /\ clock' \in ClockValues
    /\ pc' = "set"
    /\ UNCHANGED <<stage, save, do, thing_when_tuples, error, clock_class,
                   H_ext_list, h_idx, next_save_time, entry_idx, fired,
                   stages_run, deltas, whenVars, everyVars, throttleVars>>

\* self.clock.inc_stage() or self.clock.inc_stage(stage=n)
IncStage ==
    /\ pc = "set"
    /\ \E stage_ \in StageArgs :
        /\ clock' = inc_stage(clock, stage_)
        /\ stage' = stage_
    /\ pc' = "inc_stage"
    /\ UNCHANGED <<save, do, thing_when_tuples, error, clock_class,
                   H_ext_list, h_idx, next_save_time, entry_idx, fired,
                   stages_run, deltas, whenVars, everyVars, throttleVars>>

ClockNext == SetFields \/ IncStage

SpecClock == ClockInit /\ [][ClockNext]_vars

\* the fields inc_stage leaves alone
IncStageFrame ==
    {"step", "time", "real_time", "id", "stage_end", "exit_hysteresis"}

\* C21: inc_stage sets stage to stage + 1, or to the stage number given,
\* sets stage_step and stage_time to zero, clears convergence and records
\* zero_stage_step = step and zero_stage_time = time; it leaves step, time,
\* real_time, id, stage_end and exit_hysteresis unchanged, so that
\* step = zero_stage_step + stage_step holds right after it.
C21_IncStage ==
    [][pc' = "inc_stage" =>
        /\ clock'.stage = IF stage'.some THEN stage'.v ELSE clock.stage + 1
        /\ clock'.stage_step = 0
        /\ clock'.stage_time = 0
        /\ ~clock'.convergence
        /\ clock'.zero_stage_step = clock.step
        /\ clock'.zero_stage_time = clock.time
        /\ \A f \in IncStageFrame : clock'[f] = clock[f]
        /\ clock'.step = clock'.zero_stage_step + clock'.stage_step]_vars

C21_Witness ==
    /\ pc = "inc_stage"
    /\ stage = None
    /\ clock.stage = 4
    /\ clock.step = 5
    /\ clock.zero_stage_step = 5
    /\ clock.zero_stage_time = 3
    /\ clock.stage_end
    /\ clock.exit_hysteresis

----------------------------------------------------------------------------
(* SpecAnd: one call of When.next_time(identifier, this_time, tols) on an  *)
(* And predicate; the while loop of _AndSpec.next_time is followed round   *)
(* by round on its copy temp_time.                                         *)

\* largest small counter value a search starts from
MaxAndStart == 6

EveryStep2 == EverySpec("step", TRUE, 2, 0, FALSE, 0)
EveryStep2First1 == EverySpec("step", TRUE, 2, 1, FALSE, 0)

\* every('step', 2) & every('step', 2, first=1) and two more pairs of
\* periodic predicates without 'last' whose grids share no point
DisjointPairs ==
    {AndSpec(EveryStep2, EveryStep2First1),
     AndSpec(EveryStep2First1, EveryStep2),
     AndSpec(EveryStep2First1, EveryStep4First10)}

\* pairs with a child that is bounded on 'step'
BoundedPairs ==
    {AndSpec(EveryStep2Last21, EveryStep2First1),
     AndSpec(EveryStep2First1, at("step", 10)),
     AndSpec(at("step", 15), EveryStep10),
     AndSpec(at("step", 15), EveryStep3),
     AndSpec(never, EveryStep3),
     AndSpec(EveryStep3, EveryStep5First10Last20),
     AndSpec(WindowStep5To10, EveryStep3)}

\* pairs of unbounded predicates that do meet
JointPairs ==
    {AndSpec(EveryStep10, EveryStep15), AndSpec(EveryStep2, EveryStep3),
     AndSpec(EveryStep3, EveryTime10)}

AndPairs == DisjointPairs \cup BoundedPairs \cup JointPairs

\* TimeDicts with a small step count, and with one around 10^9
AndTimes ==
    {[SimulationClock EXCEPT !.step = s0] : s0 \in 0..MaxAndStart}
        \cup {[SimulationClock EXCEPT !.step = RelTolInv - 8 + d] :
                 d \in 0..(MaxAndStart + 4)}

\* this_time.copy(): a new dict holding the same items
DictCopy(tt) == tt

\* faulty variant: temp_time is the caller's dict, not a copy of it
StoreShared(caller, temp, identifier, v) ==
    [this_time |-> [caller EXCEPT ![identifier] = v],
     temp_time |-> [temp EXCEPT ![identifier] = v]]

\* temp_time[identifier] = v, temp_time being a copy: the caller's dict and
\* the copy afterwards
Store(caller, temp, identifier, v) ==
    [this_time |-> caller, temp_time |-> [temp EXCEPT ![identifier] = v]]

\* one round of the while loop of _AndSpec.next_time (lines 215-232):
\* whether it returns, what it returns, whether temp_time[identifier] was
\* assigned and which value
AndRoundOutcome(spec, identifier, temp) ==
    LET nt1 == next_time(spec.spec1, identifier, temp)
        nt2 == next_time(spec.spec2, identifier, temp)
        ntmax == AndTrial(nt1, nt2)
        argmin == IF nt1.n > nt2.n THEN spec.spec2 ELSE spec.spec1
        quit(ret) == [done |-> TRUE, ret |-> ret, stored |-> FALSE, trial |-> 0]
    IN  IF nt1 = NTNoReturn \/ nt2 = NTNoReturn THEN quit(NTNoReturn)
        ELSE IF nt1 = NTFalse \/ nt2 = NTFalse THEN quit(NTFalse)
        ELSE IF nt1 = NTTrue THEN quit(nt2)
        ELSE IF nt2 = NTTrue THEN quit(nt1)
        ELSE [done |-> match_time(argmin,
                                  [temp EXCEPT ![identifier] = ntmax]),
              ret |-> NTNum(ntmax), stored |-> TRUE, trial |-> ntmax]

AndInit ==
    /\ when \in AndPairs
    /\ this_time \in AndTimes
    /\ ident \in {"step", "time"}
    /\ tols \in {None, Some(2)}
    /\ trial_clock = SimulationClock
    /\ nt = NTFalse
    /\ nt_tols = NTFalse
    /\ matched = FALSE
    /\ results = <<>>
    /\ results_tols = <<>>
    /\ wpc = "start"
    /\ SchedIdle
    /\ LoopIdle
    /\ EveryIdle
    /\ ThrottlerIdle

\* w.match_time(this_time), then the entry of _AndSpec.next_time, lines
\* 206-213: temp_time = this_time.copy()
AndEnter ==
    /\ wpc = "start"
    /\ matched' = match_time(when, this_time)
    /\ trial_clock' = DictCopy(this_time)
    /\ wpc' = "search"
    /\ UNCHANGED <<when, this_time, ident, tols, nt, nt_tols, results,
                   results_tols>>
    /\ UNCHANGED <<schedVars, loopVars, everyVars, throttleVars>>

\* one round of the while loop; results collects the trial values
AndRound ==
    /\ wpc = "search"
    /\ Len(results) < MaxAndIter
    /\ \E round \in {AndRoundOutcome(when, ident, trial_clock)} :
       \E clocks \in
              {IF round.stored
               THEN Store(this_time, trial_clock, ident, round.trial)
               ELSE [this_time |-> this_time, temp_time |-> trial_clock]} :
           /\ this_time' = clocks.this_time
           /\ trial_clock' = clocks.temp_time
           /\ results' = IF round.stored
                         THEN Append(results, [this |-> trial_clock[ident],
                                               next |-> round.ret])
                         ELSE results
           /\ IF round.done
              THEN nt' = round.ret /\ wpc' = "raw"
              ELSE UNCHANGED <<nt, wpc>>
    /\ UNCHANGED <<when, ident, tols, nt_tols, matched, results_tols>>
    /\ UNCHANGED <<schedVars, loopVars, everyVars, throttleVars>>

\* When.next_time after the raw result, lines 287-301: the nudged copy and
\* the recomputation on it
Nudge ==
    /\ wpc = "raw"
    /\ IF tols.some /\ tols.v > 0
          /\ Abs(AsNumber(nt) - this_time[ident]) < tols.v
       THEN LET clocks == Store(this_time, DictCopy(this_time), ident,
                                AsNumber(nt) + tols.v)
            IN  /\ this_time' = clocks.this_time
                /\ trial_clock' = clocks.temp_time
                /\ nt_tols' = next_time(when, ident, clocks.temp_time)
       ELSE /\ nt_tols' = nt
            /\ UNCHANGED <<this_time, trial_clock>>
    /\ wpc' = "returned"
    /\ UNCHANGED <<when, ident, tols, nt, matched, results, results_tols>>
    /\ UNCHANGED <<schedVars, loopVars, everyVars, throttleVars>>

AndNext == AndEnter \/ AndRound \/ Nudge

SpecAnd == AndInit /\ [][AndNext]_vars

\* _AndSpec.next_time, once called, runs on: it is entered and its while
\* loop takes the next round as long as it has not returned
FairSpecAnd == SpecAnd /\ WF_vars(AndEnter \/ AndRound)

----------------------------------------------------------------------------
(* Claims on the And search, checked under SpecAnd *)

\* next('step', clock) of a pair of periodic predicates with disjoint grids
DisjointAsked == when \in DisjointPairs /\ ident = "step"

\* _AndSpec.next_time has returned
SearchReturned == wpc \in {"raw", "returned"}

\* v lies on the grid first + k * delta of a periodic predicate
OnGrid(spec, v) == v >= spec.first /\ (v - spec.first) % spec.delta = 0

C34_ClockNotModified ==
    /\ [][this_time' = this_time]_vars
    /\ [][(wpc = "search" /\ results' # results) =>
            /\ trial_clock'[ident] = results'[Len(results')].next.n
            /\ trial_clock'[ident] # this_time'[ident]]_vars
    /\ [](wpc = "returned" =>
            nt_tols = When_next_time(when, ident, this_time,
                                     IF tols.some THEN tols.v ELSE 0))

\* every('step', 2) & every('step', 3) at step 5 with a tolerance of 2: the
\* search wrote the trial value 6, the tolerance branch wrote 8
C34_Witness ==
    /\ wpc = "returned"
    /\ when = AndSpec(EveryStep2, EveryStep3)
    /\ tols = Some(2)
    /\ this_time.step = 5
    /\ results = <<[this |-> 5, next |-> NTNum(6)]>>
    /\ nt = NTNum(6)
    /\ trial_clock.step = 8
    /\ nt_tols = NTNum(12)
    /\ matched = FALSE

----------------------------------------------------------------------------
(* Claims on the And search, checked under FairSpecAnd *)

\* next('step', clock) of a pair with a child that is bounded on 'step'
BoundedAsked == when \in BoundedPairs /\ ident = "step"

\* the children of the pair that are bounded on 'step': never, a numeric
\* at, an every with a 'last'
BoundedChildren ==
    {c \in {when.spec1, when.spec2} :
        \/ c = never
        \/ c.kind = "at" /\ c.identifier = "step"
        \/ c.kind = "every" /\ c.identifier = "step" /\ c.has_last}

\* C37: next('step', clock) of a pair with a bounded child returns for every
\* clock; every round that does not return assigns a trial value larger
\* than the one before; a trial value returned is matched by both children
\* (a number returned without a trial is the other child's next_time, this
\* child's being True), and when no joint match is found the trial value
\* rises until a bounded child's next_time is False on it, and the result
\* is False.
C37_BoundedSearchEnds ==
    /\ (BoundedAsked /\ wpc = "start") ~> SearchReturned
    /\ [][(BoundedAsked /\ wpc = "search" /\ wpc' = "search") =>
            /\ Len(results') = Len(results) + 1
            /\ trial_clock'[ident] > trial_clock[ident]]_vars
    /\ [][(BoundedAsked /\ wpc = "search" /\ wpc' = "raw") =>
            \/ /\ nt' = NTFalse
               /\ \E c \in BoundedChildren :
                      next_time(c, ident, trial_clock) = NTFalse
            \/ /\ nt'.isnum
               /\ nt'.n > this_time[ident]
               /\ IF results' # results
                  THEN match_time(when, [this_time EXCEPT ![ident] = nt'.n])
                  ELSE \E c \in {when.spec1, when.spec2} :
                          next_time(c, ident, trial_clock) = NTTrue]_vars
    /\ [](BoundedAsked /\ wpc = "search" => Len(results) < MaxAndIter)

\* every('step', 2, last=21) & every('step', 2, first=1) from step 0: ten
\* trial values, 2 to 20, then the result False
C37_Witness ==
    /\ when = AndSpec(EveryStep2Last21, EveryStep2First1)
    /\ ident = "step"
    /\ this_time.step = 0
    /\ wpc = "returned"
    /\ Len(results) = 10
    /\ trial_clock.step = 20
    /\ nt = NTFalse

=============================================================================
